---- MODULE Spec2Model ----
(***************************************************************************)
(* StockSense orchestration core: the ReAct tool-calling loop              *)
(* (stocksense/orchestration/react_flow.py and its predecessor             *)
(* stocksense/ai/react_agent.py) and the adversarial debate pipeline       *)
(* (run_debate_analysis, run_streaming_debate_analysis, the Bull and Bear  *)
(* analysts and the Synthesizer), the evidence grading of the Synthesizer, *)
(* the kill-criteria monitor (core/monitor.py, scheduler.py) and the       *)
(* streaming generators under their endpoints (orchestration/streaming.py, *)
(* main.py).                                                               *)
(*                                                                         *)
(* Abstractions.  Text is abstracted to the properties the code branches   *)
(* on: a report or a summary is a tag naming the branch that built it, the *)
(* empty string stays the empty string, None is the value None.  The       *)
(* message list is kept as its suffix from the last model turn on: that    *)
(* turn (last_message) and the tool messages appended after it;            *)
(* tools_used is kept as the set of its elements (the code reads it        *)
(* through membership and set() only).                                     *)
(* Probabilities and confidences are integers in hundredths.               *)
(***************************************************************************)
EXTENDS Integers, Sequences, FiniteSets, TLC

VARIABLES
    \* ---- ReAct loop: AgentState (react_flow.py 14-49, react_agent.py 21-36)
    variant,            \* which module runs: "orchestration" or "ai"
    pc,                 \* graph position: agent, tools, end, raised, done
    last_message,       \* messages[-1]
    tool_results,       \* the tool messages that follow last_message
    headlines,
    price_data,
    fundamental_data,
    sentiment_report,
    overall_sentiment,
    skeptic_report,
    summary,
    tools_used,
    iterations,
    final_decision,
    error,
    result,             \* the dict run_react_analysis returns (None until then)
    net_calls,          \* history: provider requests made, per data collector
    agent_runs,         \* history: how many times agent_node ran
    react_steps,        \* history: how many steps the run has taken
    \* ---- Debate pipeline: locals of run_debate_analysis
    dmode,              \* "blocking" or "streaming" or "idle"
    dpc,                \* position in the pipeline
    shared,             \* fundamentals, headlines, sentiment_analysis
    collected,          \* history: the data as it was collected
    llm,                \* self.llm of the three agents: a client or None
    prompts,            \* history: the prompt each analyst gave the model
    drafts,             \* bull_case / bear_case (None until drafted)
    rebuttals,          \* bear_to_bull / bull_to_bear (None until generated)
    verdict,            \* the SynthesizedVerdict (None until synthesized)
    phases,             \* history: phase starts and completions, in order
    events,             \* the StreamEvents yielded so far (streaming mode)
    dresult,            \* what the run returned / its terminal event
    \* ---- Evidence grading: one claim in Synthesizer._grade_evidence
    gpc,                \* "idle", "claim" (to be graded), "graded",
                        \* "cases" (to be graded) or "synthesized"
    claim,              \* the claim: statement (words) and confidence
    claim_rebuttals,    \* the other side's rebuttals
    grade,              \* the EvidenceGrade built for the claim
    evidence,           \* the two cases and the two rebuttal lists synthesize gets
    graded,             \* their evidence grades and argument strengths
    \* ---- Kill-criteria monitor: on-demand check and background sweep
    mmode,              \* "on_demand", "sweep", "matching" or "idle"
    mpc,                \* position: fetch, tickers, match, done
    thesis_store,       \* the rows of the theses table
    theses,             \* the rows the run fetched
    pending,            \* the keys of ticker_map still to be analysed
    analysis_runs,      \* history: run_react_analysis calls, per ticker
    analysis_of,        \* history: the analysis result made for a ticker
    extract_calls,      \* history: extract_signals_from_analysis calls
    match_log,          \* history: match_signals_to_criteria calls
    matches_seen,       \* history: the matches those calls returned
    insert_attempts,    \* history: alert_history inserts attempted
    alerts,             \* the alert_history rows created
    turns,              \* history: the sweep's turns, ticker and outcome
    match_call,         \* the arguments of one match_signals_to_criteria call
    match_result,       \* what that call returned, and its model calls
    \* ---- Streaming: a streaming generator under its endpoint's
    \* ---- event_generator, and the consumer of the response
    skind,              \* "analysis", "debate" or "idle"
    spc,                \* the generator's position in its statements
    sphase,             \* "running", "except", "ended" or "idle"
    suspended,          \* the generators are suspended at a yield
    stream_tools_used,  \* tools_used of run_streaming_analysis
    stream_headlines,   \* whether the run's headlines are non-empty
    yielded,            \* the StreamEvents the generator has yielded
    frames,             \* the SSE frames the consumer has received
    consumer,           \* "reading", "stopped" or "finished"
    saves,              \* history: save_analysis calls, with their outcome
    stream_effects,     \* history: tool calls and cache writes made
    effects_at_yield,   \* history: stream_effects at the last frame
    \* ---- HTTP surface: the rate limiter, the analysis cache and the four
    \* ---- analysis endpoints of main.py
    clock,              \* time.time(), in ticks
    requests,           \* rate_limiter.requests: client -> request times
    allowed_log,        \* history: every request time the limiter allowed
    last_decision,      \* history: the last answer of is_allowed
    cache,              \* the rows of analysis_cache, in insertion order
    api_request,        \* the request being answered
    response,           \* the response it got
    api_calls,          \* history: the external calls made for it
    api_trace           \* history: what the cache held when it arrived

react_vars == <<variant, pc, last_message, tool_results, headlines,
                price_data, fundamental_data, sentiment_report,
                overall_sentiment, skeptic_report, summary, tools_used,
                iterations, final_decision, error, result, net_calls,
                agent_runs, react_steps>>

debate_vars == <<dmode, dpc, shared, collected, llm, prompts, drafts,
                 rebuttals, verdict, phases, events, dresult>>

grade_vars == <<gpc, claim, claim_rebuttals, grade, evidence, graded>>

monitor_vars == <<mmode, mpc, thesis_store, theses, pending, analysis_runs,
                  analysis_of, extract_calls, match_log, matches_seen,
                  insert_attempts, alerts, turns, match_call, match_result>>

stream_vars == <<skind, spc, sphase, suspended, stream_tools_used,
                 stream_headlines, yielded, frames, consumer, saves,
                 stream_effects, effects_at_yield>>

limiter_vars == <<clock, requests, allowed_log, last_decision>>

api_vars == <<limiter_vars, cache, api_request, response, api_calls,
              api_trace>>

\* What a step of one subsystem leaves alone.
outside_react ==
    <<debate_vars, grade_vars, monitor_vars, stream_vars, api_vars>>

outside_debate ==
    <<react_vars, grade_vars, monitor_vars, stream_vars, api_vars>>

outside_grade ==
    <<react_vars, debate_vars, monitor_vars, stream_vars, api_vars>>

outside_monitor ==
    <<react_vars, debate_vars, grade_vars, stream_vars, api_vars>>

outside_stream ==
    <<react_vars, debate_vars, grade_vars, monitor_vars, api_vars>>

outside_api ==
    <<react_vars, debate_vars, grade_vars, monitor_vars, stream_vars>>

vars == <<react_vars, debate_vars, grade_vars, monitor_vars, stream_vars,
          api_vars>>

None == "None"

\* ---------------------------------------------------------------- bounds
\* max_iterations is 10 in react_flow.py (line 684) and 8 in react_agent.py
\* (line 402); the loop is checked for a smaller ceiling N.
IterationCeiling == 3
\* net_calls counts up to this many provider requests per collector.
NetCallsCap == 2
\* The theses table holds up to this many rows.
MaxTheses == 2
\* requests_per_minute is 10 (main.py 69); the model uses a smaller quota.
RequestsPerMinute == 2
\* The 60 seconds of the limiter's window (main.py 44), in clock ticks.
WindowTicks == 2
\* The clock runs up to this tick.
MaxClock == 4
\* A case handed to the synthesizer holds up to this many key claims.
MaxClaims == 2
\* The analysis cache holds up to this many rows.
MaxCacheRows == 2

\* ------------------------------------------------------------ ReAct loop

\* The tools bound to the model (react_flow.py 377-384).
tools == <<"fetch_news_headlines", "fetch_price_data", "fetch_fundamentals",
           "analyze_sentiment", "generate_skeptic_critique",
           "save_analysis_results">>

\* The tools bound to the model in the older module (react_agent.py 168-172).
ai_tools == <<"fetch_news_headlines", "fetch_price_data", "analyze_sentiment">>

Range(s) == {s[i] : i \in 1..Len(s)}

ToolsOf(v) == IF v = "orchestration" THEN Range(tools) ELSE Range(ai_tools)

\* What the model may name in a tool call: any bound tool, or a name that
\* matches no tool.
RequestableNames == Range(tools) \cup {"no_such_tool"}

\* The tool_calls of one model turn: none, one call, the same call twice,
\* or two different calls of which the second needs what the first fetches.
ToolCallLists ==
    {<<>>} \cup {<<a>> : a \in RequestableNames}
           \cup {<<a, a>> : a \in RequestableNames}
           \cup {<<"fetch_news_headlines", "analyze_sentiment">>}

\* What one invocation tool_function.invoke(tool_args) can do: "ok" the tool
\* body returns success; "fail" the body returns {success: False, error} (no
\* data, or an exception caught by the body's own try/except); "raise" the
\* invocation raises before the body runs (the tool wrapper rejects
\* tool_args), which nothing in custom_tool_node catches.
Outcomes == {"ok", "fail", "raise"}

\* The text of the model's turn: empty, free text, or text holding KEEP / SELL.
Contents == {"", "text", "KEEP", "SELL"}

\* The data collector a tool body calls (react_flow.py 66, 111, 175;
\* react_agent.py 53, 85, 139).
Collectors == {"get_news", "get_price_history", "get_fundamental_data"}

CollectorOf(v, name) ==
    CASE name = "fetch_news_headlines" -> "get_news"
      [] name = "fetch_price_data" -> "get_price_history"
      [] name = "fetch_fundamentals" -> "get_fundamental_data"
      [] name = "analyze_sentiment" /\ v = "ai" -> "get_news"
      [] OTHER -> None

\* if iterations >= max_iterations (react_flow.py 406, react_agent.py 194)
CeilingReachedOffByOne(its, max) == its > max

CeilingReached(its, max) == its >= max

\* "Prevent redundant tool calls" (react_flow.py 529-553); the older module
\* has no such branch (react_agent.py 316-329).
CacheHitWithoutFundamentals(v, st, name) ==
    /\ v = "orchestration"
    /\ \/ name = "analyze_sentiment" /\ st.sentiment_report # ""
       \/ name = "fetch_news_headlines" /\ st.headlines # <<>>
       \/ name = "fetch_price_data" /\ st.price_data # <<>>

CacheHit(v, st, name) ==
    /\ v = "orchestration"
    /\ \/ name = "analyze_sentiment" /\ st.sentiment_report # ""
       \/ name = "fetch_news_headlines" /\ st.headlines # <<>>
       \/ name = "fetch_price_data" /\ st.price_data # <<>>
       \/ name = "fetch_fundamentals" /\ st.fundamental_data # "{}"

\* state.get(<the field the tool fills>) is truthy (react_flow.py 530, 536,
\* 542, 548).
DataPresent(st, name) ==
    CASE name = "analyze_sentiment" -> st.sentiment_report # ""
      [] name = "fetch_news_headlines" -> st.headlines # <<>>
      [] name = "fetch_price_data" -> st.price_data # <<>>
      [] name = "fetch_fundamentals" -> st.fundamental_data # "{}"
      [] OTHER -> FALSE

\* The data a cached answer carries (react_flow.py 533, 539, 545, 551).
StateData(st, name) ==
    CASE name = "analyze_sentiment" -> st.sentiment_report
      [] name = "fetch_news_headlines" -> st.headlines
      [] name = "fetch_price_data" -> st.price_data
      [] name = "fetch_fundamentals" -> st.fundamental_data
      [] OTHER -> None

\* The data a tool body returns on success (react_flow.py 70-76, 141-148,
\* 184-189, 232-266, 344-368).
FreshData(name) ==
    CASE name = "analyze_sentiment" -> "report"
      [] name = "fetch_news_headlines" -> <<"h1">>
      [] name = "fetch_price_data" -> <<"p1">>
      [] name = "fetch_fundamentals" -> "info"
      [] name = "generate_skeptic_critique" -> "critique"
      [] OTHER -> None

\* The result dict of one tool call (react_flow.py 529-564, react_agent.py
\* 320-329): whether the tool function was invoked, whether the answer came
\* from the state, result.get("success"), whether it has an "error" key,
\* whether the invocation raised, the data it carries; present records
\* whether the state already held the tool's data when the call was handled.
ToolResult(v, st, name, out) ==
    IF CacheHit(v, st, name)
    THEN [name |-> name, present |-> DataPresent(st, name), invoked |-> FALSE,
          cached |-> TRUE, success |-> TRUE, has_error |-> FALSE,
          raised |-> FALSE, data |-> StateData(st, name)]
    ELSE IF name \in ToolsOf(v)
    THEN [name |-> name, present |-> DataPresent(st, name), invoked |-> TRUE,
          cached |-> FALSE, success |-> (out = "ok"),
          has_error |-> (out = "fail"), raised |-> (out = "raise"),
          data |-> IF out = "ok" THEN FreshData(name) ELSE None]
    ELSE [name |-> name, present |-> DataPresent(st, name), invoked |-> FALSE,
          cached |-> FALSE, success |-> FALSE, has_error |-> TRUE,
          raised |-> FALSE, data |-> None]

\* State updates that store what the result carries whether or not the
\* call succeeded.
ApplyResultIgnoringSuccess(v, st, r) ==
    LET logged == [st EXCEPT !.tool_results = Append(@, r),
                             !.tools_used = @ \cup {r.name}]
        c == CollectorOf(v, r.name)
        counted == IF r.invoked /\ c # None
                   THEN [logged EXCEPT !.net_calls[c] =
                                        IF @ < NetCallsCap THEN @ + 1 ELSE @]
                   ELSE logged
    IN  CASE r.name = "fetch_news_headlines" ->
                [counted EXCEPT !.headlines =
                                   IF r.success THEN r.data ELSE <<>>]
          [] r.name = "fetch_price_data" ->
                [counted EXCEPT !.price_data =
                                   IF r.success THEN r.data ELSE <<>>]
          [] r.name = "fetch_fundamentals" /\ v = "orchestration" ->
                [counted EXCEPT !.fundamental_data =
                                   IF r.success THEN r.data ELSE "{}"]
          [] r.name = "analyze_sentiment" ->
                [counted EXCEPT
                    !.sentiment_report = IF r.success THEN r.data ELSE "",
                    !.overall_sentiment =
                        IF v = "ai" THEN st.overall_sentiment
                        ELSE IF r.cached \/ ~r.success THEN ""
                        ELSE "Bullish"]
          [] r.name = "generate_skeptic_critique" /\ v = "orchestration" ->
                [counted EXCEPT !.skeptic_report =
                                   IF r.success THEN r.data ELSE ""]
          [] OTHER -> counted

\* The state updates after one tool call (react_flow.py 566-613,
\* react_agent.py 331-350).  A cached analyze_sentiment answer has no
\* structured fields, so result.get("overall_sentiment", "") stores "".
ApplyResult(v, st, r) ==
    LET logged == [st EXCEPT !.tool_results = Append(@, r),
                             !.tools_used = @ \cup {r.name}]
        c == CollectorOf(v, r.name)
        counted == IF r.invoked /\ c # None
                   THEN [logged EXCEPT !.net_calls[c] =
                                        IF @ < NetCallsCap THEN @ + 1 ELSE @]
                   ELSE logged
    IN  IF ~r.success THEN counted
        ELSE CASE r.name = "fetch_news_headlines" ->
                    [counted EXCEPT !.headlines = r.data]
               [] r.name = "fetch_price_data" ->
                    [counted EXCEPT !.price_data = r.data]
               [] r.name = "fetch_fundamentals" /\ v = "orchestration" ->
                    [counted EXCEPT !.fundamental_data = r.data]
               [] r.name = "analyze_sentiment" ->
                    [counted EXCEPT
                        !.sentiment_report = r.data,
                        !.overall_sentiment =
                            IF v = "ai" THEN st.overall_sentiment
                            ELSE IF r.cached THEN "" ELSE "Bullish"]
               [] r.name = "generate_skeptic_critique" /\ v = "orchestration" ->
                    [counted EXCEPT !.skeptic_report = r.data]
               [] OTHER -> counted

\* for tool_call in last_message.tool_calls (react_flow.py 525-613): the
\* calls run in request order on the state the earlier ones left; a raise
\* leaves the loop.
RECURSIVE RunToolCalls(_, _, _, _, _)
RunToolCalls(v, st, calls, outs, i) ==
    IF i > Len(calls) \/ st.raised THEN st
    ELSE LET r == ToolResult(v, st, calls[i], outs[i])
         IN  IF r.raised
             THEN [st EXCEPT !.raised = TRUE]
             ELSE RunToolCalls(v, ApplyResult(v, st, r), calls, outs, i + 1)

ToolState ==
    [headlines |-> headlines, price_data |-> price_data,
     fundamental_data |-> fundamental_data,
     sentiment_report |-> sentiment_report,
     overall_sentiment |-> overall_sentiment,
     skeptic_report |-> skeptic_report, tools_used |-> tools_used,
     tool_results |-> <<>>, net_calls |-> net_calls, raised |-> FALSE]

\* required_tools and missing_tools (react_agent.py 263-265)
required_tools == <<"fetch_news_headlines", "fetch_price_data",
                    "analyze_sentiment">>

MissingTools(used) == {t \in Range(required_tools) : t \notin used}

\* decision = KEEP / SELL / UNSPECIFIED (react_agent.py 288)
Decision(content) ==
    IF content = "KEEP" THEN "KEEP"
    ELSE IF content = "SELL" THEN "SELL" ELSE "UNSPECIFIED"

\* should_continue (react_flow.py 622-633, react_agent.py 359-366)
should_continue(v, fd) ==
    IF fd = "CONTINUE" THEN "tools"
    ELSE IF fd \in {"COMPLETE", "MAX_ITERATIONS_REACHED"} THEN "end"
    ELSE IF v = "ai" /\ fd \in {"KEEP", "SELL", "UNSPECIFIED"} THEN "end"
    ELSE "tools"

\* The summary agent_node builds when the model's turn has no tool calls
\* (react_flow.py 485-510).
FinalSummary(content) ==
    IF sentiment_report # "" /\ headlines # <<>> THEN "comprehensive"
    ELSE IF content # "" THEN "agent_response"
    ELSE "insufficient_data_notice"

ReactInit ==
    /\ variant \in {"orchestration", "ai"}
    /\ pc = "agent"
    /\ last_message = [kind |-> "none", tool_calls |-> <<>>]
    /\ tool_results = <<>>
    /\ headlines = <<>>
    /\ price_data = <<>>
    /\ fundamental_data = "{}"
    /\ sentiment_report = ""
    /\ overall_sentiment = ""
    /\ skeptic_report = ""
    /\ summary = ""
    /\ tools_used = {}
    /\ iterations = 0
    /\ final_decision = ""
    /\ error = None
    /\ result = None
    /\ net_calls = [c \in Collectors |-> 0]
    /\ agent_runs = 0
    /\ react_steps = 0

\* agent_node at the ceiling (react_flow.py 406-411, react_agent.py 194-223),
\* followed by the conditional edge.
AgentAtCeiling ==
    /\ pc = "agent"
    /\ CeilingReached(iterations, IterationCeiling)
    /\ agent_runs' = agent_runs + 1
    /\ final_decision' = "MAX_ITERATIONS_REACHED"
    /\ error' = "Reached maximum iterations"
    /\ summary' = IF variant = "ai" THEN "partial_fallback" ELSE summary
    /\ pc' = should_continue(variant, final_decision')
    /\ UNCHANGED <<variant, last_message, tool_results, headlines,
                   price_data, fundamental_data, sentiment_report,
                   overall_sentiment, skeptic_report, tools_used, iterations,
                   result, net_calls>>

\* agent_node below the ceiling when llm_with_tools.invoke raises
\* (react_flow.py 467-469): the prompt was appended, the exception leaves the
\* graph and reaches run_react_analysis.
AgentLLMRaises ==
    /\ pc = "agent"
    /\ ~CeilingReached(iterations, IterationCeiling)
    /\ agent_runs' = agent_runs + 1
    /\ last_message' = [kind |-> "prompt", tool_calls |-> <<>>]
    /\ tool_results' = <<>>
    /\ pc' = "raised"
    /\ UNCHANGED <<variant, headlines, price_data,
                   fundamental_data, sentiment_report, overall_sentiment,
                   skeptic_report, summary, tools_used, iterations,
                   final_decision, error, result, net_calls>>

\* agent_node below the ceiling, the model answers (react_flow.py 413-512,
\* react_agent.py 225-303), followed by the conditional edge.
AgentReasons ==
    /\ pc = "agent"
    /\ ~CeilingReached(iterations, IterationCeiling)
    /\ \E calls \in ToolCallLists, content \in Contents :
        LET missing == MissingTools(tools_used)
            corrective == variant = "ai" /\ calls = <<>> /\ missing # {}
        IN
        /\ agent_runs' = agent_runs + 1
        /\ iterations' = iterations + 1
        /\ tool_results' = <<>>
        /\ last_message' =
              IF corrective THEN [kind |-> "corrective", tool_calls |-> <<>>]
              ELSE [kind |-> "ai", tool_calls |-> calls]
        /\ final_decision' =
              IF calls # <<>> THEN "CONTINUE"
              ELSE IF variant = "orchestration" THEN "COMPLETE"
              ELSE IF missing # {} THEN "CONTINUE"
              ELSE Decision(content)
        /\ summary' =
              IF calls # <<>> THEN summary
              ELSE IF variant = "orchestration" THEN FinalSummary(content)
              ELSE IF missing # {} THEN summary
              ELSE "comprehensive"
        /\ pc' = should_continue(variant, final_decision')
    /\ UNCHANGED <<variant, headlines, price_data,
                   fundamental_data, sentiment_report, overall_sentiment,
                   skeptic_report, tools_used, error, result, net_calls>>

\* custom_tool_node (react_flow.py 514-620, react_agent.py 305-357).  When
\* messages[-1] is the corrective HumanMessage (react_agent.py 282), reading
\* its tool_calls raises: a HumanMessage has none.
CustomToolNode ==
    /\ pc = "tools"
    /\ IF last_message.kind # "ai"
       THEN /\ pc' = "raised"
            /\ tool_results' = <<>>
            /\ UNCHANGED <<headlines, price_data, fundamental_data,
                           sentiment_report, overall_sentiment, skeptic_report,
                           tools_used, net_calls>>
       ELSE \E outs \in [1..Len(last_message.tool_calls) -> Outcomes] :
              LET st == RunToolCalls(variant, ToolState,
                                     last_message.tool_calls, outs, 1)
              IN  /\ pc' = IF st.raised THEN "raised" ELSE "agent"
                  /\ tool_results' = st.tool_results
                  /\ headlines' = st.headlines
                  /\ price_data' = st.price_data
                  /\ fundamental_data' = st.fundamental_data
                  /\ sentiment_report' = st.sentiment_report
                  /\ overall_sentiment' = st.overall_sentiment
                  /\ skeptic_report' = st.skeptic_report
                  /\ tools_used' = st.tools_used
                  /\ net_calls' = st.net_calls
    /\ UNCHANGED <<variant, last_message, summary, iterations, final_decision,
                   error, result, agent_runs>>

\* run_react_analysis after react_app.invoke returned (react_flow.py 710-743,
\* react_agent.py 408-422).
ReturnFinalState ==
    /\ pc = "end"
    /\ result' = [summary |-> summary, error |-> error,
                  iterations |-> iterations, aborted |-> FALSE]
    /\ pc' = "done"
    /\ UNCHANGED <<variant, last_message, tool_results, headlines,
                   price_data, fundamental_data, sentiment_report,
                   overall_sentiment, skeptic_report, summary, tools_used,
                   iterations, final_decision, error, net_calls, agent_runs>>

\* run_react_analysis when react_app.invoke raised (react_flow.py 745-765,
\* react_agent.py 424-439).
ReturnAfterException ==
    /\ pc = "raised"
    /\ result' = [summary |-> "temporarily_unavailable",
                  error |-> "ReAct Agent error", iterations |-> 0,
                  aborted |-> TRUE]
    /\ pc' = "done"
    /\ UNCHANGED <<variant, last_message, tool_results, headlines,
                   price_data, fundamental_data, sentiment_report,
                   overall_sentiment, skeptic_report, summary, tools_used,
                   iterations, final_decision, error, net_calls, agent_runs>>

Sides == {"bull", "bear"}

\* Before the data is collected, before a prompt is built, before a task
\* of the gather has returned.
NoData == [info |-> <<>>, headlines |-> <<>>, sentiment |-> [key_themes |-> <<>>]]

NoPrompt == [persona |-> None, metrics |-> <<>>, headlines |-> <<>>, themes |-> <<>>]

NoCase ==
    [side |-> None, source |-> None, confidence |-> 0, key_metrics |-> <<>>,
     key_claims |-> <<>>]

DebateIdle ==
    /\ dmode = "idle"
    /\ dpc = "idle"
    /\ shared = NoData
    /\ collected = NoData
    /\ llm = "unset"
    /\ prompts = [s \in Sides |-> NoPrompt]
    /\ drafts = [s \in Sides |-> NoCase]
    /\ rebuttals = [s \in Sides |-> <<>>]
    /\ verdict = None
    /\ phases = <<>>
    /\ events = <<>>
    /\ dresult = None

\* Before a claim is taken up, before its grade is built.
NoClaim == [statement |-> <<>>, confidence |-> 0]

NoGrade ==
    [source_agent |-> None, has_counter_evidence |-> FALSE,
     data_support_score |-> 0, rebuttal_strength |-> 0,
     final_credibility |-> 0]

NoEvidence ==
    [bull_case |-> [key_claims |-> <<>>], bear_case |-> [key_claims |-> <<>>],
     bull_rebuttals |-> <<>>, bear_rebuttals |-> <<>>]

NoGraded ==
    [evidence_grades |-> <<>>,
     bull_argument_strength |-> [num |-> 0, den |-> 1],
     bear_argument_strength |-> [num |-> 0, den |-> 1]]

GradeIdle ==
    /\ gpc = "idle"
    /\ claim = NoClaim
    /\ claim_rebuttals = <<>>
    /\ grade = NoGrade
    /\ evidence = NoEvidence
    /\ graded = NoGraded

Tickers == {"AAPL", "TSLA"}

NoMatchCall ==
    [signals |-> <<>>, kill_criteria |-> <<>>, llm_ok |-> FALSE,
     reply |-> [json |-> "invalid", items |-> <<>>]]

NoMatchResult == [matches |-> <<>>, model_calls |-> 0]

MonitorIdle ==
    /\ turns = <<>>
    /\ match_call = NoMatchCall
    /\ match_result = NoMatchResult
    /\ mmode = "idle"
    /\ mpc = "idle"
    /\ thesis_store = <<>>
    /\ theses = <<>>
    /\ pending = <<>>
    /\ analysis_runs = [t \in Tickers |-> 0]
    /\ analysis_of = [t \in Tickers |-> 0]
    /\ extract_calls = 0
    /\ match_log = <<>>
    /\ matches_seen = {}
    /\ insert_attempts = <<>>
    /\ alerts = <<>>

StreamIdle ==
    /\ skind = "idle"
    /\ spc = 0
    /\ sphase = "idle"
    /\ suspended = FALSE
    /\ stream_tools_used = <<>>
    /\ stream_headlines = FALSE
    /\ yielded = <<>>
    /\ frames = <<>>
    /\ consumer = "idle"
    /\ saves = <<>>
    /\ stream_effects = 0
    /\ effects_at_yield = 0

Clients == {"c1", "c2"}

NoDecision ==
    [client_id |-> None, at |-> 0, allowed |-> FALSE, own_recent |-> 0,
     remaining |-> -1]

NoRequest ==
    [endpoint |-> None, ticker |-> None, shape |-> None, force |-> FALSE]

NoResponse ==
    [status |-> 0, body |-> None, remaining_reported |-> FALSE, row |-> 0,
     error_text |-> FALSE, ticker_field |-> FALSE,
     timestamp_field |-> FALSE]

\* No Authorization header (or an empty one).
NoAuthorization == [present |-> FALSE, parts |-> <<>>]

NoTrace ==
    [had_row |-> FALSE, rows_before |-> 0, read_ok |-> FALSE,
     authorization |-> NoAuthorization, check_user |-> None,
     check_raised |-> FALSE, alerts_for |-> {}]

ApiIdle ==
    /\ clock = 0
    /\ requests = [c \in Clients |-> <<>>]
    /\ allowed_log = [c \in Clients |-> <<>>]
    /\ last_decision = NoDecision
    /\ cache = <<>>
    /\ api_request = NoRequest
    /\ response = NoResponse
    /\ api_calls = {}
    /\ api_trace = NoTrace

\* Every step of the run is counted.
ReactTick == react_steps' = react_steps + 1 /\ UNCHANGED outside_react

ReactStep ==
    \/ AgentAtCeiling /\ ReactTick
    \/ AgentLLMRaises /\ ReactTick
    \/ AgentReasons /\ ReactTick
    \/ CustomToolNode /\ ReactTick
    \/ ReturnFinalState /\ ReactTick
    \/ ReturnAfterException /\ ReactTick

ReactStart ==
    ReactInit /\ DebateIdle /\ GradeIdle /\ MonitorIdle /\ StreamIdle
    /\ ApiIdle

SpecReact == ReactStart /\ [][ReactStep]_vars

\* The graph runner and run_react_analysis run every enabled node: the loop
\* is one sequential flow and no step of it waits on anything.
SpecReactFair == SpecReact /\ WF_vars(ReactStep)

\* ------------------------------------------------------------ ReAct claims

\* The required data categories of a final answer: headlines, price data,
\* sentiment analysis, skeptic critique (react_flow.py 447-452); in the
\* older module, every required tool was used (react_agent.py 263-267).
RequiredStepsDone ==
    IF variant = "orchestration"
    THEN /\ headlines # <<>>
         /\ price_data # <<>>
         /\ sentiment_report # ""
         /\ skeptic_report # ""
    ELSE MissingTools(tools_used) = {}

\* C1: given max_iterations = N the loop terminates: the iteration counter
\* never exceeds N, agent_node runs at most N + 1 times, the run takes at
\* most 2N + 2 steps and is never stuck before it has returned.
C1_TerminatesWithinCeiling ==
    /\ iterations <= IterationCeiling
    /\ agent_runs <= IterationCeiling + 1
    /\ react_steps <= 2 * IterationCeiling + 2
    /\ pc # "done" => ENABLED ReactStep

\* C1 witness: a run that used all N iterations and ended at the ceiling on
\* the (N+1)th run of agent_node.
C1_Witness ==
    /\ pc = "done"
    /\ final_decision = "MAX_ITERATIONS_REACHED"
    /\ iterations = IterationCeiling
    /\ agent_runs = IterationCeiling + 1

\* C1, as a liveness property under SpecReactFair: the run returns.
C1_EventuallyReturns == <>(pc = "done")

\* C2: a run always returns a non-null summary, and a run that reached the
\* iteration ceiling returns normally, tagged MAX_ITERATIONS_REACHED, with a
\* partial summary (a summary that is not empty).
C2_PartialSummaryAtCeiling ==
    pc = "done" =>
        /\ result.summary # None
        /\ final_decision = "MAX_ITERATIONS_REACHED" =>
              ~result.aborted /\ result.summary # ""

\* C3: within one run of the orchestration loop no data collector (news,
\* price, fundamentals) is requested from its provider more than once,
\* whatever the earlier calls returned.
C3_NoRepeatedFetch ==
    variant = "orchestration" => \A c \in Collectors : net_calls[c] <= 1

\* C4: in the orchestration loop, a call of fetch_news_headlines,
\* fetch_price_data, fetch_fundamentals or analyze_sentiment made while the
\* state already holds that tool's data is answered from the state: the
\* result is a success carrying the state's data and the tool function is
\* not invoked.
C4_AnsweredFromState ==
    variant = "orchestration" =>
        \A i \in 1..Len(tool_results) :
            tool_results[i].present =>
                /\ tool_results[i].success
                /\ ~tool_results[i].invoked
                /\ tool_results[i].cached
                /\ tool_results[i].data # None

\* C4 witness: the model asked again for fundamentals the state already
\* held, and the tool step answered.
C4_Witness ==
    /\ variant = "orchestration"
    /\ pc = "agent"
    /\ \E i \in 1..Len(tool_results) :
          /\ tool_results[i].name = "fetch_fundamentals"
          /\ tool_results[i].present
          /\ tool_results[i].data = "info"

\* C5: the loop reaches its end only at the iteration ceiling, or on a model
\* turn with zero tool calls when all required data categories are present;
\* a run is never tagged COMPLETE while a required category is missing.
C5_CompleteOnlyWithAllData ==
    /\ pc = "end" =>
          \/ final_decision = "MAX_ITERATIONS_REACHED"
          \/ last_message.tool_calls = <<>> /\ RequiredStepsDone
    /\ final_decision = "COMPLETE" => RequiredStepsDone

\* The model has just given a final answer (no tool calls) although the
\* required steps are not satisfied.
PrematureFinalAnswer ==
    \/ last_message.kind = "corrective"
    \/ /\ last_message.kind = "ai"
       /\ last_message.tool_calls = <<>>
       /\ ~RequiredStepsDone

\* C6: after a final answer given before the required steps are satisfied,
\* the loop has injected a corrective instruction and goes on to another
\* reasoning iteration: it has neither ended nor failed.
C6_PrematureAnswerForcesIteration ==
    PrematureFinalAnswer =>
        /\ last_message.kind = "corrective"
        /\ pc \in {"tools", "agent"}

\* C7: in the orchestration loop a failing tool invocation never aborts the
\* run: the tool step always
\* returns to the reasoning step, and every call that did not succeed left a
\* result with an error in the message history.
C7_ToolFailureNeverAborts ==
    variant = "orchestration" =>
    /\ ~(pc = "raised" /\ last_message.kind = "ai")
    /\ \A i \in 1..Len(tool_results) :
          ~tool_results[i].success => tool_results[i].has_error

\* ------------------------------------------------------- Debate pipeline

\* AgentToolConfig (base_agent.py 35-76); a focus term is kept as the list
\* of words its underscores separate.
BULL_CONFIG ==
    [persona |-> "growth_focused",
     fundamental_priority |-> <<"revenue_growth", "market_cap", "forward_pe",
                                "recommendation_mean", "target_high",
                                "target_mean">>,
     sentiment_focus |-> << <<"positive", "themes">>, <<"analyst", "upgrades">>,
                            <<"product", "launches">>,
                            <<"market", "expansion">>,
                            <<"competitive", "wins">> >>]

BEAR_CONFIG ==
    [persona |-> "risk_focused",
     fundamental_priority |-> <<"debt_to_equity", "profit_margins", "pe_ratio",
                                "price_to_book", "current_ratio",
                                "quick_ratio">>,
     sentiment_focus |-> << <<"negative", "themes">>, <<"insider", "selling">>,
                            <<"competitive", "threats">>,
                            <<"regulatory", "risks">>,
                            <<"margin", "compression">> >>]

ConfigOf(side) == IF side = "bull" THEN BULL_CONFIG ELSE BEAR_CONFIG

\* s[:n]
Take(s, n) == SubSeq(s, 1, IF Len(s) < n THEN Len(s) ELSE n)

\* The keys of fundamentals["info"], in dict order, as get_fundamental_data
\* may return them; <<>> is the empty dict (also what None becomes,
\* react_flow.py 806-807).
InfoOrders ==
    {<<>>,
     <<"pe_ratio", "revenue_growth", "sector">>,
     <<"market_cap", "sector", "debt_to_equity">>}

HeadlineLists == {<<>>, <<"h1">>, <<"h1", "h2">>}

\* Theme texts, lower-cased, as lists of words.
ThemeTexts ==
    {<<"analyst", "upgrades">>, <<"regulatory", "risks">>, <<"earnings">>}

ThemeLists ==
    {<<>>} \cup {t \in ThemeTexts \X ThemeTexts : t[1] # t[2]}

\* prepare_fundamentals (base_agent.py 118-146): the priority keys present in
\* info first, in priority order, then the remaining keys in dict order.
prepare_fundamentals(side, info) ==
    LET priority == ConfigOf(side).fundamental_priority
        first == SelectSeq(priority, LAMBDA k : k \in Range(info))
        rest == SelectSeq(info, LAMBDA k : k \notin Range(first))
    IN  first \o rest

\* focus_term.replace("_", " ") in theme_text (base_agent.py 165), on words:
\* the words of the term occur next to each other in the theme.
PhraseIn(term, text) ==
    \E i \in 1..Len(text) :
        /\ i + Len(term) - 1 <= Len(text)
        /\ SubSeq(text, i, i + Len(term) - 1) = term

\* The relevance of a theme to an agent's focus (base_agent.py 161-168).
RECURSIVE Relevance(_, _, _)
Relevance(focus, text, i) ==
    IF i > Len(focus) THEN 0
    ELSE (IF PhraseIn(focus[i], text) THEN 2
          ELSE IF \E w \in Range(focus[i]) : w \in Range(text) THEN 1
          ELSE 0) + Relevance(focus, text, i + 1)

\* Insert a theme into a list sorted by descending relevance, after the
\* themes of equal relevance.
RECURSIVE InsertByRelevance(_, _, _)
InsertByRelevance(focus, sorted, t) ==
    IF sorted = <<>> THEN <<t>>
    ELSE IF Relevance(focus, Head(sorted), 1) >= Relevance(focus, t, 1)
    THEN <<Head(sorted)>> \o InsertByRelevance(focus, Tail(sorted), t)
    ELSE <<t>> \o sorted

\* scored_themes.sort(key=_relevance, reverse=True), a stable sort
\* (base_agent.py 176).
RECURSIVE SortByRelevance(_, _)
SortByRelevance(focus, themes) ==
    IF themes = <<>> THEN <<>>
    ELSE InsertByRelevance(focus,
                           SortByRelevance(focus, Take(themes, Len(themes) - 1)),
                           themes[Len(themes)])

\* filter_sentiment_themes (base_agent.py 148-181): the dict it returns.
filter_sentiment_themes(side, sentiment) ==
    [sentiment EXCEPT
        !.key_themes = SortByRelevance(ConfigOf(side).sentiment_focus, @)]

SentimentSortedInPlace(side, sentiment) ==
    filter_sentiment_themes(side, sentiment)

\* The caller's sentiment_analysis after filter_sentiment_themes returned:
\* the themes are copied into scored_themes and the result is a new dict, so
\* the argument is as it was (base_agent.py 159-181).
SentimentLeftByFilter(side, sentiment) == sentiment

\* _build_analysis_prompt (bull_analyst.py 217-282, bear_analyst.py 225-290)
\* on the prepared data (bull_analyst.py 94-104).
AnalysisPrompt(side, data) ==
    [persona |-> ConfigOf(side).persona,
     metrics |-> Take(prepare_fundamentals(side, data.info), 15),
     headlines |-> Take(data.headlines, 10),
     themes |-> Take(filter_sentiment_themes(side, data.sentiment).key_themes,
                     5)]

\* What the completion service may answer to an analysis prompt: text that
\* is no JSON (or a failing call), or a JSON object.
AnalysisReplies ==
    {[json |-> "invalid", confidence |-> 0, key_claims |-> <<>>],
     [json |-> "object", confidence |-> 80,
      key_claims |-> <<[statement |-> <<"revenue", "growth", "is", "strong">>,
                        confidence |-> 70]>>],
     [json |-> "object", confidence |-> 50, key_claims |-> <<>>]}

\* _fallback_analysis (bull_analyst.py 284-301, bear_analyst.py 292-310).
FallbackCase(side, info) ==
    [side |-> side, source |-> "fallback", confidence |-> 30,
     key_metrics |-> SelectSeq(Take(ConfigOf(side).fundamental_priority, 3),
                               LAMBDA k : k \in Range(info)),
     key_claims |-> <<>>]

\* analyze (bull_analyst.py 79-147, bear_analyst.py 83-153).
AnalyzeCase(side, up, info, reply) ==
    IF ~up \/ reply.json = "invalid" THEN FallbackCase(side, info)
    ELSE [side |-> side, source |-> "llm", confidence |-> reply.confidence,
          key_metrics |-> <<>>, key_claims |-> reply.key_claims]

\* What the completion service may answer to a rebuttal prompt.
RebuttalReplies ==
    {[json |-> "invalid", items |-> <<>>],
     [json |-> "array", items |-> <<>>],
     [json |-> "array",
      items |-> <<[target_claim |-> <<"revenue", "growth">>, strength |-> 40]>>]}

\* generate_rebuttal (bull_analyst.py 149-215, bear_analyst.py 155-221).
GenerateRebuttal(up, reply) ==
    IF ~up \/ reply.json = "invalid" THEN <<>> ELSE reply.items

\* ------------------------------------------------------- Evidence grading
\* Confidences and strengths are integers in hundredths; a credibility is
\* their product with (1 - strength * 0.5) and is kept exactly, in units of
\* 1/20000: credibility 1.0 is 20000.

\* A confidence (hundredths) in the units of a credibility.
AsCredibility(c) == c * 200

\* The scores the completion service may put in a claim or a rebuttal: the
\* unit interval in steps of 0.05, and values above it.
Scores == {5 * k : k \in 0..22}

UnitInterval == 0..100

\* Claim statements and rebuttal targets, as lists of words.
Statements ==
    {<<"revenue", "growth", "is", "strong">>, <<"debt", "is", "rising">>, <<>>}

Targets == {<<"revenue", "growth">>, <<"margins">>}

\* The rebuttal lists graded against: none, one rebuttal, or two.
RebuttalLists ==
    {<<>>}
    \cup {<<[target_claim |-> t, strength |-> st]>> :
             t \in Targets, st \in Scores}
    \cup {<<[target_claim |-> <<"margins">>, strength |-> 100],
            [target_claim |-> <<"revenue", "growth">>, strength |-> st]>> :
             st \in Scores}

\* The characters of the words the texts are made of.
Letters(word) ==
    CASE word = "revenue" -> <<"r", "e", "v", "e", "n", "u", "e">>
      [] word = "growth" -> <<"g", "r", "o", "w", "t", "h">>
      [] word = "is" -> <<"i", "s">>
      [] word = "strong" -> <<"s", "t", "r", "o", "n", "g">>
      [] word = "debt" -> <<"d", "e", "b", "t">>
      [] word = "Debt" -> <<"D", "e", "b", "t">>
      [] word = "rising" -> <<"r", "i", "s", "i", "n", "g">>
      [] word = "margins" -> <<"m", "a", "r", "g", "i", "n", "s">>
      [] word = "This" -> <<"T", "h", "i", "s">>

\* str.lower() (synthesizer.py 262, 265).
Lower(chars) ==
    [k \in 1..Len(chars) |->
        CASE chars[k] = "D" -> "d"
          [] chars[k] = "T" -> "t"
          [] OTHER -> chars[k]]

IsSubstring(w, t) ==
    \E k \in 0..(Len(t) - Len(w)) : SubSeq(t, k + 1, k + Len(w)) = w

\* `word in target` (synthesizer.py 267) for a word of claim_text.split():
\* the word holds no whitespace, so it lies in the target text exactly when
\* it lies within one of the target's words.
WordInTarget(word, target) ==
    \E j \in 1..Len(target) :
        IsSubstring(Lower(Letters(word)), Lower(Letters(target[j])))

\* The first rebuttal that matches wins only if it is also the last.
RECURSIVE FindLastMatchingRebuttal(_, _, _)
FindLastMatchingRebuttal(statement, rebs, i) ==
    IF i > Len(rebs) THEN 0
    ELSE LET later == FindLastMatchingRebuttal(statement, rebs, i + 1)
         IN  IF later # 0 THEN later
             ELSE IF \E w \in Range(Take(statement, 3)) :
                        WordInTarget(w, rebs[i].target_claim)
             THEN i
             ELSE 0

\* _find_matching_rebuttal (synthesizer.py 256-270): the index of the first
\* rebuttal whose target text holds one of the first three words of the
\* claim, both lower-cased; 0 when there is none (None).
RECURSIVE FindMatchingRebuttal(_, _, _)
FindMatchingRebuttal(statement, rebs, i) ==
    IF i > Len(rebs) THEN 0
    ELSE IF \E w \in Range(Take(statement, 3)) :
               WordInTarget(w, rebs[i].target_claim)
    THEN i
    ELSE FindMatchingRebuttal(statement, rebs, i + 1)

CredibilityRaisedByRebuttal(claim_confidence, rebuttal_strength) ==
    claim_confidence * (200 + rebuttal_strength)

\* _calculate_credibility (synthesizer.py 272-278):
\* claim_confidence * (1 - rebuttal_strength * 0.5).
CalculateCredibility(claim_confidence, rebuttal_strength) ==
    claim_confidence * (200 - rebuttal_strength)

\* The EvidenceGrade of one claim (synthesizer.py 218-234, 236-252).
GradeClaim(source, c, rebs) ==
    LET m == FindMatchingRebuttal(c.statement, rebs, 1)
        strength == IF m = 0 THEN 0 ELSE rebs[m].strength
    IN  [source_agent |-> source, has_counter_evidence |-> (m # 0),
         data_support_score |-> c.confidence,
         rebuttal_strength |-> strength,
         final_credibility |-> CalculateCredibility(c.confidence, strength)]

\* _grade_evidence (synthesizer.py 203-254): the Bull claims against the
\* Bear's rebuttals, then the Bear claims against the Bull's.
GradeEvidence(bull_case, bear_case, bull_rebuttals, bear_rebuttals) ==
    [i \in 1..Len(bull_case.key_claims) |->
        GradeClaim("bull", bull_case.key_claims[i], bear_rebuttals)]
    \o [i \in 1..Len(bear_case.key_claims) |->
        GradeClaim("bear", bear_case.key_claims[i], bull_rebuttals)]

\* sum(g.final_credibility for g in grades)
RECURSIVE SumCredibility(_)
SumCredibility(grades) ==
    IF grades = <<>> THEN 0
    ELSE Head(grades).final_credibility + SumCredibility(Tail(grades))

\* The mean over the grades of both sides.
CalculateStrengthOverAll(grades, source) ==
    IF grades = <<>> THEN [num |-> AsCredibility(50), den |-> 1]
    ELSE [num |-> SumCredibility(grades), den |-> Len(grades)]

\* _calculate_argument_strength (synthesizer.py 280-291): the mean
\* final_credibility of the grades of one agent, as the fraction num/den of
\* credibility units; 0.5 when the agent has no grade.
CalculateArgumentStrength(grades, source) ==
    LET agent_grades == SelectSeq(grades, LAMBDA g : g.source_agent = source)
    IN  IF agent_grades = <<>> THEN [num |-> AsCredibility(50), den |-> 1]
        ELSE [num |-> SumCredibility(agent_grades),
              den |-> Len(agent_grades)]

\* The claims a case may hold and the rebuttal lists of a side: targets that
\* hold a claim's word inside a longer word or in another case, or that
\* hold only a claim's fourth word.
ClaimPool ==
    {[statement |-> <<"Debt", "is", "rising">>, confidence |-> 80],
     [statement |-> <<"revenue", "growth", "is", "strong">>, confidence |-> 40],
     [statement |-> <<"margins">>, confidence |-> 60]}

ClaimLists == UNION {[1..n -> ClaimPool] : n \in 0..MaxClaims}

SideRebuttals ==
    {<<>>,
     <<[target_claim |-> <<"strong">>, strength |-> 100]>>,
     <<[target_claim |-> <<"strong">>, strength |-> 100],
       [target_claim |-> <<"debt">>, strength |-> 40]>>,
     <<[target_claim |-> <<"debt">>, strength |-> 40],
       [target_claim |-> <<"This">>, strength |-> 80]>>,
     <<[target_claim |-> <<"This">>, strength |-> 80],
       [target_claim |-> <<"debt">>, strength |-> 40]>>}

\* What the completion service may answer to the synthesis prompt: text
\* that is no JSON, a JSON value that is no object, or a JSON object with
\* any of the keys; probabilities and conviction in hundredths.
SynthesisKeys ==
    {"bull_probability", "base_probability", "bear_probability",
     "recommendation", "conviction"}

Object(keys, bull, base, bear, rec, conv) ==
    [json |-> "object", keys |-> keys, bull_probability |-> bull,
     base_probability |-> base, bear_probability |-> bear,
     recommendation |-> rec, conviction |-> conv]

SynthesisReplies ==
    {[Object({}, 0, 0, 0, "", 0) EXCEPT !.json = "invalid"],
     [Object({}, 0, 0, 0, "", 0) EXCEPT !.json = "array"],
     Object(SynthesisKeys, 30, 45, 25, "Buy", 70),
     Object(SynthesisKeys, 50, 50, 50, "Hold", 60),
     Object({"bull_probability", "recommendation", "conviction"},
            90, 0, 0, "Strong Buy", 90),
     Object({}, 0, 0, 0, "", 0)}

\* synthesis.get(key, default)
GetOr(synthesis, key, default) ==
    IF key \in synthesis.keys THEN synthesis[key] ELSE default

\* _generate_synthesis (synthesizer.py 351-373): the dict it returns.
GenerateSynthesis(reply) ==
    IF reply.json = "invalid"
    THEN Object(SynthesisKeys, 33, 34, 33, "Hold", 50)
    ELSE reply

\* synthesize (synthesizer.py 163-201) and _fallback_synthesis (375-401).
\* source stands for the label the verdict carries: "fallback" for "LLM
\* unavailable - manual review required" (line 395), "synthesis_failed" for
\* "LLM synthesis failed" (line 369), "llm" for the model's own factors.
Synthesize(up, reply, grades) ==
    IF ~up
    THEN [source |-> "fallback", bull_probability |-> 33,
          base_probability |-> 34, bear_probability |-> 33,
          recommendation |-> "Hold", conviction |-> 30,
          evidence_grades |-> <<>>]
    ELSE LET synthesis == GenerateSynthesis(reply)
         IN  [source |-> IF reply.json = "invalid" THEN "synthesis_failed"
                         ELSE "llm",
              evidence_grades |-> grades,
              bull_probability |-> GetOr(synthesis, "bull_probability", 33),
              base_probability |-> GetOr(synthesis, "base_probability", 34),
              bear_probability |-> GetOr(synthesis, "bear_probability", 33),
              recommendation |-> GetOr(synthesis, "recommendation", "Hold"),
              conviction |-> GetOr(synthesis, "conviction", 50)]

\* A StreamEvent, progress in hundredths (streaming.py 41-49).
Event(type, progress) == [event_type |-> type, progress |-> progress]

\* yield emit(...) in the streaming generator; the blocking run yields nothing.
Yield(evs) == IF dmode = "streaming" THEN events \o evs ELSE events

ReactIdle ==
    /\ variant = "orchestration"
    /\ pc = "idle"
    /\ last_message = [kind |-> "none", tool_calls |-> <<>>]
    /\ tool_results = <<>>
    /\ headlines = <<>>
    /\ price_data = <<>>
    /\ fundamental_data = "{}"
    /\ sentiment_report = ""
    /\ overall_sentiment = ""
    /\ skeptic_report = ""
    /\ summary = ""
    /\ tools_used = {}
    /\ iterations = 0
    /\ final_decision = ""
    /\ error = None
    /\ result = None
    /\ net_calls = [c \in Collectors |-> 0]
    /\ agent_runs = 0
    /\ react_steps = 0

DebateInit ==
    /\ dmode \in {"blocking", "streaming"}
    /\ dpc = "collect"
    /\ shared = NoData
    /\ collected = NoData
    /\ llm = "unset"
    /\ prompts = [s \in Sides |-> NoPrompt]
    /\ drafts = [s \in Sides |-> NoCase]
    /\ rebuttals = [s \in Sides |-> <<>>]
    /\ verdict = None
    /\ phases = <<>>
    /\ events = <<>>
    /\ dresult = None

\* The three collector calls in statement order (react_flow.py 801-803,
\* streaming.py 401-403).
DebateCollectors == <<"get_fundamental_data", "get_news", "get_price_history">>

\* `x = await asyncio.to_thread(f, ...)` once per collector: the thread is
\* dispatched and the coroutine is suspended until it has finished, and only
\* then does the next statement dispatch the next collector.
RECURSIVE AwaitEach(_)
AwaitEach(fns) ==
    IF fns = <<>> THEN <<>>
    ELSE <<"dispatch_" \o Head(fns), "done_" \o Head(fns)>>
         \o AwaitEach(Tail(fns))

\* Step 0: the three collectors, then the shared sentiment analysis, then
\* the constructors (react_flow.py 800-839, streaming.py 386-458).  A failed
\* sentiment analysis leaves sentiment_analysis = {}.
CollectData ==
    /\ dpc = "collect"
    /\ \E info \in InfoOrders, hs \in HeadlineLists, themes \in ThemeLists,
          client \in {"client", None} :
        LET data == [info |-> info, headlines |-> hs,
                     sentiment |-> [key_themes |->
                                       IF hs = <<>> THEN <<>> ELSE themes]]
        IN  /\ shared' = data
            /\ collected' = data
            /\ llm' = client
            /\ events' = Yield(
                  <<Event("debate_started", 0), Event("tool_started", 5),
                    Event("tool_completed", 15)>>
                  \o (IF hs = <<>> THEN <<>>
                      ELSE <<Event("tool_started", 18),
                             Event("tool_completed", 25)>>)
                  \o <<Event("bull_drafting", 30), Event("bear_drafting", 30)>>)
    /\ phases' = phases \o AwaitEach(DebateCollectors) \o <<"collect_done">>
    /\ dpc' = "drafting"
    /\ UNCHANGED <<dmode, prompts, drafts, rebuttals, verdict, dresult>>

\* A collector raises (get_fundamental_data is called unguarded,
\* react_flow.py 801, streaming.py 401).
CollectRaises ==
    /\ dpc = "collect"
    /\ events' = Yield(<<Event("debate_started", 0), Event("tool_started", 5)>>)
    /\ dpc' = "raised"
    /\ UNCHANGED <<dmode, shared, collected, llm, prompts, drafts,
                   rebuttals, verdict, phases, dresult>>

\* One of the two tasks of asyncio.gather(bull_task, bear_task) runs
\* (react_flow.py 844-852, streaming.py 474-481): analyze has no await, so a
\* task runs from start to end in one step.
Analyze(side) ==
    /\ dpc = "drafting"
    /\ drafts[side] = NoCase
    /\ \E reply \in AnalysisReplies :
          drafts' = [drafts EXCEPT
                        ![side] = AnalyzeCase(side, llm = "client", shared.info, reply)]
    /\ prompts' = [prompts EXCEPT
                      ![side] = IF llm = "client"
                                THEN AnalysisPrompt(side, shared)
                                ELSE NoPrompt]
    /\ shared' = IF llm = "client"
                 THEN [shared EXCEPT
                          !.sentiment = SentimentLeftByFilter(side, @)]
                 ELSE shared
    /\ phases' = phases \o <<side \o "_draft_start", side \o "_draft_done">>
    /\ UNCHANGED <<dmode, dpc, collected, llm, rebuttals, verdict, events,
                   dresult>>

GatherFirstCompleted(d) == d["bull"] # NoCase \/ d["bear"] # NoCase

\* await asyncio.gather(bull_task, bear_task) has returned (react_flow.py
\* 852, streaming.py 481): both tasks are done.
GatherReturned(d) == d["bull"] # NoCase /\ d["bear"] # NoCase

\* Bear critiques Bull (react_flow.py 854-866, streaming.py 483-518).
BearRebuttal ==
    /\ dpc = "drafting"
    /\ GatherReturned(drafts)
    /\ \E reply \in RebuttalReplies :
          rebuttals' = [rebuttals EXCEPT
                           !["bear"] = GenerateRebuttal(llm = "client", reply)]
    /\ events' = Yield(<<Event("bull_complete", 50), Event("bear_complete", 55),
                         Event("rebuttal_round", 60)>>)
    /\ phases' = phases \o <<"bear_rebuttal_start", "bear_rebuttal_done">>
    /\ dpc' = "bull_rebuttal"
    /\ UNCHANGED <<dmode, shared, collected, llm, prompts, drafts, verdict,
                   dresult>>

\* Bull critiques Bear (react_flow.py 869-871, streaming.py 521-523).
BullRebuttal ==
    /\ dpc = "bull_rebuttal"
    /\ \E reply \in RebuttalReplies :
          rebuttals' = [rebuttals EXCEPT
                           !["bull"] = GenerateRebuttal(llm = "client", reply)]
    /\ phases' = phases \o <<"bull_rebuttal_start", "bull_rebuttal_done">>
    /\ dpc' = "synthesis"
    /\ UNCHANGED <<dmode, shared, collected, llm, prompts, drafts, verdict,
                   events, dresult>>

\* Phase 3 (react_flow.py 873-906, streaming.py 525-569): synthesize
\* returns a verdict, or raises when the model's JSON is no object
\* (synthesis.get, synthesizer.py 188).
Synthesis ==
    /\ dpc = "synthesis"
    /\ \E reply \in SynthesisReplies :
          IF llm = "client" /\ reply.json = "array"
          THEN /\ dpc' = "raised"
               /\ verdict' = verdict
          ELSE /\ dpc' = "return"
               /\ verdict' = Synthesize(llm = "client", reply,
                                        GradeEvidence(drafts["bull"],
                                                      drafts["bear"],
                                                      rebuttals["bull"],
                                                      rebuttals["bear"]))
    /\ events' = Yield(<<Event("progress", 75), Event("synthesis_started", 80)>>)
    /\ phases' = phases \o <<"synthesis_start">>
    /\ UNCHANGED <<dmode, shared, collected, llm, prompts, drafts,
                   rebuttals, dresult>>

\* The combined result (react_flow.py 911-926) or the debate_completed
\* event carrying it (streaming.py 571-593).
DebateReturn ==
    /\ dpc = "return"
    /\ dresult' = [ticker |-> "ticker", timestamp |-> "now",
                   verdict |-> verdict, bull_case |-> drafts["bull"],
                   bear_case |-> drafts["bear"], rebuttals |-> rebuttals,
                   error |-> None]
    /\ events' = Yield(<<Event("debate_completed", 100)>>)
    /\ dpc' = "done"
    /\ UNCHANGED <<dmode, shared, collected, llm, prompts, drafts,
                   rebuttals, verdict, phases>>

\* except Exception (react_flow.py 928-941, streaming.py 595-601).
DebateFailed ==
    /\ dpc = "raised"
    /\ dresult' = [ticker |-> "ticker", timestamp |-> "now",
                   verdict |-> None, bull_case |-> None, bear_case |-> None,
                   rebuttals |-> None, error |-> "exception"]
    /\ events' = Yield(<<Event("error", 0)>>)
    /\ dpc' = "done"
    /\ UNCHANGED <<dmode, shared, collected, llm, prompts, drafts,
                   rebuttals, verdict, phases>>

DebateStep ==
    \/ CollectData /\ UNCHANGED outside_debate
    \/ CollectRaises /\ UNCHANGED outside_debate
    \/ Analyze("bull") /\ UNCHANGED outside_debate
    \/ Analyze("bear") /\ UNCHANGED outside_debate
    \/ BearRebuttal /\ UNCHANGED outside_debate
    \/ BullRebuttal /\ UNCHANGED outside_debate
    \/ Synthesis /\ UNCHANGED outside_debate
    \/ DebateReturn /\ UNCHANGED outside_debate
    \/ DebateFailed /\ UNCHANGED outside_debate

DebateStart ==
    ReactIdle /\ DebateInit /\ GradeIdle /\ MonitorIdle /\ StreamIdle
    /\ ApiIdle

SpecDebate == DebateStart /\ [][DebateStep]_vars

\* ----------------------------------------------------------- Debate claims

\* Position of a phase tag in the history (0 when absent).
PhaseAt(tag) ==
    IF \E i \in 1..Len(phases) : phases[i] = tag
    THEN CHOOSE i \in 1..Len(phases) : phases[i] = tag
    ELSE 0

Before(a, b) == PhaseAt(a) # 0 /\ PhaseAt(a) < PhaseAt(b)

\* C8: in every debate run, blocking or streaming, a rebuttal starts only
\* after both drafts have completed, and synthesis starts only after both
\* rebuttal directions have completed.
C8_JoinBarriers ==
    /\ \A r \in {"bear_rebuttal_start", "bull_rebuttal_start"} :
          PhaseAt(r) # 0 =>
              /\ Before("bull_draft_done", r)
              /\ Before("bear_draft_done", r)
              /\ drafts["bull"] # NoCase /\ drafts["bear"] # NoCase
    /\ PhaseAt("synthesis_start") # 0 =>
          /\ Before("bear_rebuttal_done", "synthesis_start")
          /\ Before("bull_rebuttal_done", "synthesis_start")

\* C8 witness: a streaming run in which both drafts, both rebuttal
\* directions and the start of synthesis have happened.
C8_Witness ==
    /\ dmode = "streaming"
    /\ Before("bull_draft_done", "bear_rebuttal_start")
    /\ Before("bull_rebuttal_done", "synthesis_start")
    /\ events[Len(events)].event_type = "synthesis_started"

C10_ProbabilitiesSumToOne ==
    (dpc = "done" /\ dresult.error = None) =>
        LET total == dresult.verdict.bull_probability
                     + dresult.verdict.base_probability
                     + dresult.verdict.bear_probability
        IN  95 <= total /\ total <= 105

\* The completion service was unavailable throughout a finished debate
\* run: no client could be built (self.llm is None), or every call of the
\* client failed.
ServiceUnavailable ==
    \/ llm = None
    \/ /\ llm = "client"
       /\ \A sd \in Sides : drafts[sd].source = "fallback"
       /\ \A sd \in Sides : rebuttals[sd] = <<>>
       /\ verdict.source = "synthesis_failed"

\* C12: when the completion service is unavailable, the Bull agent, the
\* Bear agent and the Synthesizer each return the low-confidence stub: the
\* cases have confidence 0.3, no claims and only the metrics found in the
\* raw fundamentals, there are no rebuttals, and the verdict is Hold with
\* conviction 0.3 and no evidence grades.
C12_StubWhenUnavailable ==
    (dpc = "done" /\ dresult.error = None /\ ServiceUnavailable) =>
        /\ \A sd \in Sides :
              /\ dresult[sd \o "_case"] = FallbackCase(sd, collected.info)
              /\ dresult[sd \o "_case"].confidence = 30
              /\ dresult[sd \o "_case"].key_claims = <<>>
              /\ dresult.rebuttals[sd] = <<>>
        /\ dresult.verdict.recommendation = "Hold"
        /\ dresult.verdict.conviction = 30
        /\ dresult.verdict.evidence_grades = <<>>

\* C13: when the collectors return nothing for the ticker (no fundamentals,
\* no headlines, hence no sentiment analysis), the finished debate run
\* returns without an error, with a verdict whose recommendation is the
\* fallback Hold and with both cases.
C13_EmptyDataGivesHold ==
    (/\ dpc = "done"
     /\ PhaseAt("collect_done") # 0
     /\ collected = NoData) =>
        /\ dresult.error = None
        /\ dresult.verdict.recommendation = "Hold"
        /\ dresult.bull_case.side = "bull"
        /\ dresult.bear_case.side = "bear"

\* ------------------------------------------------ Evidence grading run

GradeInit ==
    /\ grade = NoGrade
    /\ graded = NoGraded
    /\ \/ /\ gpc = "claim"
          /\ claim \in [statement : Statements, confidence : Scores]
          /\ claim_rebuttals \in RebuttalLists
          /\ evidence = NoEvidence
       \/ /\ gpc = "cases"
          /\ claim = NoClaim
          /\ claim_rebuttals = <<>>
          /\ evidence \in [bull_case : [key_claims : ClaimLists],
                            bear_case : [key_claims : ClaimLists],
                            bull_rebuttals : SideRebuttals,
                            bear_rebuttals : SideRebuttals]

\* One turn of a loop of _grade_evidence: a Bull claim against the Bear's
\* rebuttals (synthesizer.py 218-234) or a Bear claim against the Bull's
\* (236-252).
GradeBullClaim ==
    /\ gpc = "claim"
    /\ grade' = GradeClaim("bull", claim, claim_rebuttals)
    /\ gpc' = "graded"
    /\ UNCHANGED <<claim, claim_rebuttals, evidence, graded>>

GradeBearClaim ==
    /\ gpc = "claim"
    /\ grade' = GradeClaim("bear", claim, claim_rebuttals)
    /\ gpc' = "graded"
    /\ UNCHANGED <<claim, claim_rebuttals, evidence, graded>>

\* Steps 1 and 2 of synthesize (synthesizer.py 169-176): the evidence grades
\* of both cases, then the argument strength of each side.
GradeCases ==
    /\ gpc = "cases"
    /\ LET evidence_grades ==
               GradeEvidence(evidence.bull_case, evidence.bear_case,
                             evidence.bull_rebuttals, evidence.bear_rebuttals)
       IN  graded' =
               [evidence_grades |-> evidence_grades,
                bull_argument_strength |->
                    CalculateArgumentStrength(evidence_grades, "bull"),
                bear_argument_strength |->
                    CalculateArgumentStrength(evidence_grades, "bear")]
    /\ gpc' = "synthesized"
    /\ UNCHANGED <<claim, claim_rebuttals, grade, evidence>>

GradeStep ==
    \/ GradeBullClaim /\ UNCHANGED outside_grade
    \/ GradeBearClaim /\ UNCHANGED outside_grade
    \/ GradeCases /\ UNCHANGED outside_grade

GradeStart ==
    ReactIdle /\ DebateIdle /\ GradeInit /\ MonitorIdle /\ StreamIdle
    /\ ApiIdle

SpecGrade == GradeStart /\ [][GradeStep]_vars

\* C11: for a claim confidence in [0,1] and a rebuttal strength in [0,1],
\* the final credibility of a graded claim is within [0,1], no stronger
\* rebuttal gives a higher credibility and no weaker one a lower, and it
\* equals the claim confidence when the strength is 0, in particular when
\* no rebuttal matches the claim.
C11_CredibilityMonotone ==
    (/\ gpc = "graded"
     /\ claim.confidence \in UnitInterval
     /\ grade.rebuttal_strength \in UnitInterval) =>
        /\ 0 <= grade.final_credibility
        /\ grade.final_credibility <= AsCredibility(100)
        /\ \A r \in UnitInterval :
              /\ r >= grade.rebuttal_strength =>
                    CalculateCredibility(claim.confidence, r)
                        <= grade.final_credibility
              /\ r <= grade.rebuttal_strength =>
                    CalculateCredibility(claim.confidence, r)
                        >= grade.final_credibility
        /\ grade.rebuttal_strength = 0 =>
              grade.final_credibility = AsCredibility(claim.confidence)
        /\ ~grade.has_counter_evidence =>
              grade.final_credibility = AsCredibility(claim.confidence)

\* C11 witness: a claim of positive confidence was graded against a matching
\* rebuttal of positive strength and lost credibility.
C11_Witness ==
    /\ gpc = "graded"
    /\ claim.confidence \in UnitInterval /\ claim.confidence > 0
    /\ grade.has_counter_evidence
    /\ grade.rebuttal_strength \in UnitInterval
    /\ grade.rebuttal_strength > 0
    /\ grade.final_credibility < AsCredibility(claim.confidence)

\* --------------------------------------------------- Kill-criteria monitor
\* core/monitor.py holds the functions scheduler.py imports from
\* .kill_criteria_monitor.  Match confidences are integers in hundredths.

Users == {"u1", "u2"}

\* A row of the theses table: kill_criteria is NULL, the empty list (the
\* default of a new thesis, supabase_client.py 193) or a list of criteria.
ThesisShapes ==
    [user_id : Users, ticker : Tickers, status : {"active", "closed"},
     kill_criteria : {"null", "empty", "some"}]

ThesisStores == UNION {[1..n -> ThesisShapes] : n \in 0..MaxTheses}

\* Rows that all carry the user of the first row.
StoreRowsOneUser(store) ==
    [i \in 1..Len(store) |->
        [id |-> i, user_id |-> store[1].user_id, ticker |-> store[i].ticker,
         status |-> store[i].status,
         kill_criteria |-> store[i].kill_criteria]]

\* The rows with their ids.
StoreRows(store) ==
    [i \in 1..Len(store) |->
        [id |-> i, user_id |-> store[i].user_id, ticker |-> store[i].ticker,
         status |-> store[i].status,
         kill_criteria |-> store[i].kill_criteria]]

\* .eq("status", "active").not_.is_("kill_criteria", "null")
\* (scheduler.py 29-33)
ActiveWithCriteria(rows) ==
    SelectSeq(rows, LAMBDA t : t.status = "active" /\ t.kill_criteria # "null")

\* get_user_theses(user_id, access_token, ticker) (supabase_client.py
\* 164-178); the caller gets [] when the fetch fails.
get_user_theses(rows, user_id, ticker) ==
    SelectSeq(rows, LAMBDA t : t.user_id = user_id /\ t.ticker = ticker)

\* t.get("status") == "active" and t.get("kill_criteria")
\* (monitor.py 369-372)
ActiveTheses(rows) ==
    SelectSeq(rows, LAMBDA t : t.status = "active" /\ t.kill_criteria = "some")

TickerPerThesis(ths) == [i \in 1..Len(ths) |-> ths[i].ticker]

\* The keys of ticker_map, in insertion order (scheduler.py 41-50).
RECURSIVE TickerKeys(_)
TickerKeys(ths) ==
    IF ths = <<>> THEN <<>>
    ELSE LET front == TickerKeys(Take(ths, Len(ths) - 1))
             t == ths[Len(ths)].ticker
         IN  IF t \in Range(front) THEN front ELSE Append(front, t)

\* ticker_map[ticker] (scheduler.py 41-50).
TickerMap(ths, ticker) == SelectSeq(ths, LAMBDA t : t.ticker = ticker)

\* The confidences of the matches one match_signals_to_criteria call
\* returns (monitor.py 138-226); <<>> also when the call fails.
MatchLists == {<<>>, <<59>>, <<60>>, <<59, 80>>}

AlertThresholdStrict(match_confidence) == match_confidence > 60

\* if match.match_confidence >= 0.6 (monitor.py 397, scheduler.py 100)
AlertThresholdMet(match_confidence) == match_confidence >= 60

\* The records the monitor keeps.
Book ==
    [match_log |-> match_log, matches_seen |-> matches_seen,
     insert_attempts |-> insert_attempts, alerts |-> alerts]

\* for match in matches (monitor.py 396-411, scheduler.py 99-131): an
\* insert into alert_history for every match at or above the threshold; a
\* failed insert is logged and creates no row (monitor.py 280-282,
\* scheduler.py 127-131).
RECURSIVE RaiseAlerts(_, _, _, _, _, _)
RaiseAlerts(bk, th, matches, i, insert_ok, source) ==
    IF i > Len(matches) THEN bk
    ELSE LET row == [thesis_id |-> th.id, user_id |-> th.user_id,
                     ticker |-> th.ticker, match_confidence |-> matches[i],
                     source |-> source]
             seen == [bk EXCEPT !.matches_seen =
                         @ \cup {[thesis_id |-> th.id,
                                  match_confidence |-> matches[i]]}]
         IN  IF AlertThresholdMet(matches[i])
             THEN RaiseAlerts(
                      [seen EXCEPT
                          !.insert_attempts =
                              Append(@, [row |-> row, inserted |-> insert_ok]),
                          !.alerts = IF insert_ok THEN Append(@, row) ELSE @],
                      th, matches, i + 1, insert_ok, source)
             ELSE RaiseAlerts(seen, th, matches, i + 1, insert_ok, source)

\* for thesis in active_theses (monitor.py 389-411) / for user_info in users
\* (scheduler.py 85-131): a thesis without criteria is passed over, the
\* others are matched against the signals of analysis result aid.
RECURSIVE CheckTheses(_, _, _, _, _, _, _)
CheckTheses(bk, ths, i, aid, matches, insert_ok, source) ==
    IF i > Len(ths) THEN bk
    ELSE LET th == ths[i]
             logged == [bk EXCEPT !.match_log =
                           Append(@, [thesis_id |-> th.id,
                                      ticker |-> th.ticker,
                                      analysis |-> aid])]
         IN  IF th.kill_criteria # "some"
             THEN CheckTheses(bk, ths, i + 1, aid, matches, insert_ok, source)
             ELSE CheckTheses(
                      RaiseAlerts(logged, th, matches[th.id], 1,
                                  insert_ok[th.id], source),
                      ths, i + 1, aid, matches, insert_ok, source)

IdsOf(ths) == {ths[i].id : i \in 1..Len(ths)}

\* An index the model's JSON gives: an integer, or a value that is none
\* (a string).
IntIndex(n) == [kind |-> "int", value |-> n]

NotInt == [kind |-> "str", value |-> 0]

\* The entries of matches_data: in range, at the last element from the end,
\* past the end, before the start, no integer, at another element.
MatchEntryPool ==
    {[criteria_index |-> IntIndex(0), signal_index |-> IntIndex(0)],
     [criteria_index |-> IntIndex(1), signal_index |-> IntIndex(1)],
     [criteria_index |-> IntIndex(-1), signal_index |-> IntIndex(-1)],
     [criteria_index |-> IntIndex(2), signal_index |-> NotInt],
     [criteria_index |-> IntIndex(0), signal_index |-> IntIndex(2)],
     [criteria_index |-> IntIndex(-3), signal_index |-> IntIndex(0)],
     [criteria_index |-> IntIndex(0), signal_index |-> IntIndex(-3)],
     [criteria_index |-> NotInt, signal_index |-> IntIndex(0)]}

\* What llm.invoke may answer: text that is no JSON, or a JSON array.
MatchReplies ==
    {[json |-> "invalid", items |-> <<>>]}
    \cup {[json |-> "array", items |-> items] :
             items \in UNION {[1..n -> MatchEntryPool] : n \in 0..2}}

SignalLists ==
    {<<>>, <<[text |-> "margin fell"]>>,
     <<[text |-> "margin fell"], [text |-> "ceo left"]>>}

CriteriaLists ==
    {<<>>, <<"margin below 20%">>, <<"margin below 20%", "ceo departs">>}

\* An index before the start of the list gives the empty text.
PyIndexBlank(list, i) ==
    IF i >= 0 THEN [raised |-> FALSE, item |-> list[i + 1]]
    ELSE IF i >= -Len(list)
    THEN [raised |-> FALSE, item |-> list[Len(list) + i + 1]]
    ELSE [raised |-> FALSE, item |-> ""]

\* list[i] for an integer i below len(list) (monitor.py 213-214): a
\* negative index counts from the end, and one before the start raises
\* IndexError.
PyIndex(list, i) ==
    IF i >= 0 THEN [raised |-> FALSE, item |-> list[i + 1]]
    ELSE IF i >= -Len(list)
    THEN [raised |-> FALSE, item |-> list[Len(list) + i + 1]]
    ELSE [raised |-> TRUE, item |-> None]

\* for m in matches_data (monitor.py 207-217): `a < len(x) and b < len(y)`
\* raises TypeError for a string it has to compare, the second comparison
\* being made only when the first holds.
RECURSIVE MatchEntries(_, _, _, _, _)
MatchEntries(signals, kill_criteria, items, i, acc) ==
    IF i > Len(items) THEN [raised |-> FALSE, matches |-> acc]
    ELSE LET criteria_idx == items[i].criteria_index
             signal_idx == items[i].signal_index
             texts == [k \in 1..Len(signals) |-> signals[k].text]
             Raised == [raised |-> TRUE, matches |-> acc]
             Skip == MatchEntries(signals, kill_criteria, items, i + 1, acc)
         IN  IF criteria_idx.kind # "int" THEN Raised
             ELSE IF criteria_idx.value >= Len(kill_criteria) THEN Skip
             ELSE IF signal_idx.kind # "int" THEN Raised
             ELSE IF signal_idx.value >= Len(signals) THEN Skip
             ELSE LET c == PyIndex(kill_criteria, criteria_idx.value)
                      sg == PyIndex(texts, signal_idx.value)
                  IN  IF c.raised \/ sg.raised THEN Raised
                      ELSE MatchEntries(
                               signals, kill_criteria, items, i + 1,
                               Append(acc, [criteria |-> c.item,
                                            signal |-> sg.item]))

\* match_signals_to_criteria (monitor.py 138-226): the matches it returns
\* and the number of llm.invoke calls it made.
match_signals_to_criteria(signals, kill_criteria, llm_ok, reply) ==
    IF signals = <<>> \/ kill_criteria = <<>>
    THEN [matches |-> <<>>, model_calls |-> 0]
    ELSE IF ~llm_ok THEN [matches |-> <<>>, model_calls |-> 0]
    ELSE IF reply.json = "invalid" THEN [matches |-> <<>>, model_calls |-> 1]
    ELSE LET r == MatchEntries(signals, kill_criteria, reply.items, 1, <<>>)
         IN  [matches |-> IF r.raised THEN <<>> ELSE r.matches,
              model_calls |-> 1]

\* How many analyses the sweep has run.
AnalysesRun == analysis_runs["AAPL"] + analysis_runs["TSLA"]

MonitorInit ==
    /\ \/ /\ mmode \in {"on_demand", "sweep"}
          /\ mpc = "fetch"
          /\ thesis_store \in ThesisStores
          /\ match_call = NoMatchCall
       \/ /\ mmode = "matching"
          /\ mpc = "match"
          /\ thesis_store = <<>>
          /\ match_call \in [signals : SignalLists,
                              kill_criteria : CriteriaLists,
                              llm_ok : BOOLEAN, reply : MatchReplies]
    /\ match_result = NoMatchResult
    /\ turns = <<>>
    /\ theses = <<>>
    /\ pending = <<>>
    /\ analysis_runs = [t \in Tickers |-> 0]
    /\ analysis_of = [t \in Tickers |-> 0]
    /\ extract_calls = 0
    /\ match_log = <<>>
    /\ matches_seen = {}
    /\ insert_attempts = <<>>
    /\ alerts = <<>>

\* check_all_active_theses up to the loop over ticker_map (scheduler.py
\* 16-51): the query, the early return, the grouping by ticker; a failing
\* query ends the job (lines 134-135).
SweepFetch ==
    /\ mmode = "sweep"
    /\ mpc = "fetch"
    /\ \E query_ok \in BOOLEAN :
          LET rows == IF query_ok
                      THEN ActiveWithCriteria(StoreRows(thesis_store))
                      ELSE <<>>
          IN  /\ theses' = rows
              /\ pending' = TickerKeys(rows)
              /\ mpc' = IF rows = <<>> THEN "done" ELSE "tickers"
    /\ UNCHANGED <<mmode, thesis_store, analysis_runs, analysis_of,
                   extract_calls, match_log, matches_seen, insert_attempts,
                   alerts, turns, match_call, match_result>>

\* A failed turn ends the whole sweep.
SweepStopsOnFailure(outcome, rest) ==
    IF outcome \in {"analysis_raised", "extraction_raised", "matching_raised"}
    THEN [pending |-> <<>>, mpc |-> "done"]
    ELSE [pending |-> rest, mpc |-> IF rest = <<>> THEN "done" ELSE "tickers"]

\* The end of a turn of the loop over ticker_map (scheduler.py 55-56,
\* 133-134): `except Exception` logs what the turn raised and the loop goes
\* on with the next ticker.
SweepContinues(outcome, rest) ==
    [pending |-> rest, mpc |-> IF rest = <<>> THEN "done" ELSE "tickers"]

\* One turn of "for ticker, users in ticker_map.items()" (scheduler.py
\* 53-134): the analysis, the signal extraction, then every thesis of the
\* ticker.  The analysis, the extraction or the matching of a thesis may
\* raise, which ends the turn; a failed insert is logged inside the turn
\* (lines 127-131).
SweepTicker ==
    /\ mmode = "sweep"
    /\ mpc = "tickers"
    /\ pending # <<>>
    /\ LET ticker == Head(pending)
           users == TickerMap(theses, ticker)
           aid == AnalysesRun + 1
           Turn(outcome, bk) ==
               LET next == SweepContinues(outcome, Tail(pending))
               IN  /\ analysis_of' = IF outcome # "analysis_raised"
                                     THEN [analysis_of EXCEPT ![ticker] = aid]
                                     ELSE analysis_of
                   /\ extract_calls' = IF outcome # "analysis_raised"
                                       THEN extract_calls + 1
                                       ELSE extract_calls
                   /\ match_log' = bk.match_log
                   /\ matches_seen' = bk.matches_seen
                   /\ insert_attempts' = bk.insert_attempts
                   /\ alerts' = bk.alerts
                   /\ turns' = Append(turns, [ticker |-> ticker,
                                              outcome |-> outcome])
                   /\ pending' = next.pending
                   /\ mpc' = next.mpc
       IN  /\ analysis_runs' = [analysis_runs EXCEPT ![ticker] = @ + 1]
           /\ \/ \E outcome \in {"analysis_raised", "extraction_raised",
                                  "no_signals"} : Turn(outcome, Book)
              \/ \E matches \in [IdsOf(users) -> MatchLists],
                    insert_ok \in [IdsOf(users) -> BOOLEAN] :
                     \/ Turn("checked",
                             CheckTheses(Book, users, 1, aid, matches,
                                         insert_ok, "background_monitor"))
                     \/ \E k \in 1..Len(users) :
                           /\ users[k].kill_criteria = "some"
                           /\ Turn("matching_raised",
                                   CheckTheses(Book, SubSeq(users, 1, k - 1),
                                               1, aid, matches, insert_ok,
                                               "background_monitor"))
    /\ UNCHANGED <<mmode, thesis_store, theses, match_call, match_result>>

\* check_kill_criteria_for_ticker (monitor.py 339-413), called with a
\* finished analysis result (analysis 0) for one user and ticker.
OnDemandCheck ==
    /\ mmode = "on_demand"
    /\ mpc = "fetch"
    /\ \E user_id \in Users, ticker \in Tickers, fetch_ok \in BOOLEAN :
          LET rows == IF fetch_ok
                      THEN get_user_theses(StoreRows(thesis_store), user_id,
                                           ticker)
                      ELSE <<>>
              active_theses == ActiveTheses(rows)
          IN  /\ theses' = rows
              /\ \E signals \in {"none", "some"},
                    matches \in [IdsOf(active_theses) -> MatchLists],
                    insert_ok \in [IdsOf(active_theses) -> BOOLEAN] :
                    LET bk == IF active_theses # <<>> /\ signals = "some"
                              THEN CheckTheses(Book, active_theses, 1, 0,
                                               matches, insert_ok, "on_demand")
                              ELSE Book
                    IN  /\ extract_calls' = IF active_theses # <<>>
                                            THEN extract_calls + 1
                                            ELSE extract_calls
                        /\ match_log' = bk.match_log
                        /\ matches_seen' = bk.matches_seen
                        /\ insert_attempts' = bk.insert_attempts
                        /\ alerts' = bk.alerts
    /\ mpc' = "done"
    /\ UNCHANGED <<mmode, thesis_store, pending, analysis_runs, analysis_of,
                   turns, match_call, match_result>>

\* One call of match_signals_to_criteria (monitor.py 138-226).
MatchCall ==
    /\ mmode = "matching"
    /\ mpc = "match"
    /\ match_result' = match_signals_to_criteria(
                           match_call.signals, match_call.kill_criteria,
                           match_call.llm_ok, match_call.reply)
    /\ mpc' = "done"
    /\ UNCHANGED <<mmode, thesis_store, theses, pending, analysis_runs,
                   analysis_of, extract_calls, match_log, matches_seen,
                   insert_attempts, alerts, turns, match_call>>

MonitorStep ==
    \/ SweepFetch /\ UNCHANGED outside_monitor
    \/ SweepTicker /\ UNCHANGED outside_monitor
    \/ OnDemandCheck /\ UNCHANGED outside_monitor
    \/ MatchCall /\ UNCHANGED outside_monitor

MonitorStart ==
    ReactIdle /\ DebateIdle /\ GradeIdle /\ MonitorInit /\ StreamIdle
    /\ ApiIdle

SpecMonitor == MonitorStart /\ [][MonitorStep]_vars

\* ------------------------------------------------------- Monitor claims

\* A thesis of the store that declares criteria to evaluate: active, with a
\* non-empty kill_criteria list.
Declares(t) == t.status = "active" /\ t.kill_criteria = "some"

\* Some match the monitor saw for a thesis has this confidence / some alert
\* row, some attempted insert carries it.
AlertFor(m) ==
    \E i \in 1..Len(alerts) :
        /\ alerts[i].thesis_id = m.thesis_id
        /\ alerts[i].match_confidence = m.match_confidence

AttemptFor(m) ==
    \E i \in 1..Len(insert_attempts) :
        /\ insert_attempts[i].row.thesis_id = m.thesis_id
        /\ insert_attempts[i].row.match_confidence = m.match_confidence

C15_NoCriteriaNoWork ==
    LET rows == StoreRows(thesis_store)
        Declared(t) == \E i \in 1..Len(rows) :
                          rows[i].ticker = t /\ Declares(rows[i])
    IN  /\ \A t \in Tickers : analysis_runs[t] > 0 => Declared(t)
        /\ extract_calls > 0 => \E t \in Tickers : Declared(t)
        /\ \A i \in 1..Len(match_log) : Declares(rows[match_log[i].thesis_id])
        /\ \A i \in 1..Len(alerts) : Declares(rows[alerts[i].thesis_id])

\* C16: in one sweep the analysis is run at most once per ticker, exactly
\* once for each ticker of the fetched theses when the sweep is over, and
\* every thesis of a ticker is matched against that one analysis result.
C16_OneAnalysisPerTicker ==
    mmode = "sweep" =>
        /\ \A t \in Tickers : analysis_runs[t] <= 1
        /\ mpc = "done" =>
              \A t \in Tickers :
                  analysis_runs[t] = 1 <=> TickerMap(theses, t) # <<>>
        /\ \A i \in 1..Len(match_log) :
              /\ match_log[i].analysis # 0
              /\ match_log[i].analysis = analysis_of[match_log[i].ticker]

\* C16 witness: two theses of two users on one ticker were matched in a
\* sweep that analysed the ticker once.
C16_Witness ==
    /\ mmode = "sweep"
    /\ mpc = "done"
    /\ Len(match_log) = 2
    /\ match_log[1].ticker = match_log[2].ticker
    /\ theses[1].user_id # theses[2].user_id
    /\ analysis_runs[match_log[1].ticker] = 1


\* ------------------------------------------------------------- Streaming
\* run_streaming_analysis and run_streaming_debate_analysis
\* (orchestration/streaming.py) under the event_generator of their endpoints
\* (main.py 559-587, 718-725).  A generator runs only while the consumer of
\* the response asks for the next frame; it is suspended at each yield.
\* Progress is an integer in hundredths; a payload is "none", "partial" or
\* "full" (the final data of the run).

TOOL_SEQUENCE ==
    <<"fetch_news_headlines", "fetch_price_data", "analyze_sentiment",
      "generate_skeptic_critique">>

\* calculate_progress (streaming.py 79-82)
calculate_progress(tools_completed) ==
    LET completed_count ==
            Cardinality({i \in 1..Len(TOOL_SEQUENCE) :
                            TOOL_SEQUENCE[i] \in Range(tools_completed)})
        share == (completed_count * 100) \div Len(TOOL_SEQUENCE)
    IN  IF share < 100 THEN share ELSE 100

\* A statement of a generator: "yield emit(StreamEvent(...))" or a call
\* made between two yields; a guarded call sits in a try of its own.
StreamEvent(event_type, tool_name, progress, data) ==
    [op |-> "yield", event_type |-> event_type, tool_name |-> tool_name,
     progress |-> progress, data |-> data, guarded |-> FALSE]

Call(tool_name, guarded) ==
    [op |-> "call", event_type |-> "none", tool_name |-> tool_name,
     progress |-> 0, data |-> "none", guarded |-> guarded]

\* A generator whose price stage announces only its completion.
AnalysisStatementsUnpaired(has_headlines) ==
    <<StreamEvent("started", None, 0, "none"),
      StreamEvent("tool_started", "fetch_news_headlines", 5, "none"),
      Call("fetch_news_headlines", FALSE),
      StreamEvent("tool_completed", "fetch_news_headlines", 25, "partial"),
      Call("fetch_price_data", FALSE),
      StreamEvent("tool_completed", "fetch_price_data", 45, "partial")>>
    \o (IF has_headlines
        THEN <<StreamEvent("tool_started", "analyze_sentiment", 50, "none"),
               Call("analyze_sentiment", FALSE),
               StreamEvent("tool_completed", "analyze_sentiment", 70,
                           "partial"),
               StreamEvent("tool_started", "generate_skeptic_critique", 75,
                           "none"),
               Call("generate_skeptic_critique", FALSE),
               StreamEvent("tool_completed", "generate_skeptic_critique", 90,
                           "partial")>>
        ELSE <<>>)
    \o <<StreamEvent("completed", None, 100, "full")>>

\* The statements of run_streaming_analysis (streaming.py 114-337); the
\* STARTED yield precedes the try.
AnalysisStatements(has_headlines) ==
    <<StreamEvent("started", None, 0, "none"),
      StreamEvent("tool_started", "fetch_news_headlines", 5, "none"),
      Call("fetch_news_headlines", FALSE),
      StreamEvent("tool_completed", "fetch_news_headlines", 25, "partial"),
      StreamEvent("tool_started", "fetch_price_data", 30, "none"),
      Call("fetch_price_data", FALSE),
      StreamEvent("tool_completed", "fetch_price_data", 45, "partial")>>
    \o (IF has_headlines
        THEN <<StreamEvent("tool_started", "analyze_sentiment", 50, "none"),
               Call("analyze_sentiment", FALSE),
               StreamEvent("tool_completed", "analyze_sentiment", 70,
                           "partial"),
               StreamEvent("tool_started", "generate_skeptic_critique", 75,
                           "none"),
               Call("generate_skeptic_critique", FALSE),
               StreamEvent("tool_completed", "generate_skeptic_critique", 90,
                           "partial")>>
        ELSE <<>>)
    \o <<StreamEvent("completed", None, 100, "full")>>

\* The statements of run_streaming_debate_analysis (streaming.py 384-593).
DebateStatements(has_headlines) ==
    <<StreamEvent("debate_started", None, 0, "none"),
      StreamEvent("tool_started", "collect_data", 5, "none"),
      Call("collect_data", FALSE),
      StreamEvent("tool_completed", "collect_data", 15, "partial")>>
    \o (IF has_headlines
        THEN <<StreamEvent("tool_started", "analyze_sentiment", 18, "none"),
               Call("analyze_sentiment", TRUE),
               StreamEvent("tool_completed", "analyze_sentiment", 25,
                           "none")>>
        ELSE <<>>)
    \o <<StreamEvent("bull_drafting", None, 30, "none"),
         StreamEvent("bear_drafting", None, 30, "none"),
         Call("analyze", FALSE),
         StreamEvent("bull_complete", None, 50, "partial"),
         StreamEvent("bear_complete", None, 55, "partial"),
         StreamEvent("rebuttal_round", None, 60, "none"),
         Call("generate_rebuttal", FALSE),
         StreamEvent("progress", None, 75, "partial"),
         StreamEvent("synthesis_started", None, 80, "none"),
         Call("synthesize", FALSE),
         StreamEvent("debate_completed", None, 100, "full")>>

StatementsOf(kind, has_headlines) ==
    IF kind = "analysis" THEN AnalysisStatements(has_headlines)
    ELSE DebateStatements(has_headlines)

\* The calls whose result decides "if state['headlines']" / "if headlines".
HeadlineSources == {"fetch_news_headlines", "collect_data"}

\* progress of the ERROR event (streaming.py 341-345, 597-601).
ErrorProgress(kind, tools_completed) ==
    IF kind = "analysis" THEN calculate_progress(tools_completed) ELSE 0

RaisePropagates(guarded) == IF guarded THEN "running" ELSE "ended"

\* Where an exception raised by a call takes the generator: past the call
\* when the call has a try of its own (streaming.py 427-449), to the
\* generator's except Exception otherwise (339, 595).
OnRaise(guarded) == IF guarded THEN "running" ELSE "except"

\* What the consumer receives: event.to_sse() (streaming.py 53-66), or
\* the error frame event_generator builds itself (main.py 585-587).
Frame(type, data) == [type |-> type, data |-> data]

CachesAnyPayload(frame) == frame.data # "none"

\* if event.event_type.value == "completed" and event.data (main.py 565)
CachesResult(frame) == frame.type = "completed" /\ frame.data # "none"

TerminalTypes == {"completed", "debate_completed", "error"}

StreamInit ==
    /\ skind \in {"analysis", "debate"}
    /\ spc = 1
    /\ sphase = "running"
    /\ suspended = FALSE
    /\ stream_tools_used = <<>>
    /\ stream_headlines = FALSE
    /\ yielded = <<>>
    /\ frames = <<>>
    /\ consumer = "reading"
    /\ saves = <<>>
    /\ stream_effects = 0
    /\ effects_at_yield = 0

\* The statement the generator is at.
Statement == StatementsOf(skind, stream_headlines)[spc]

Running ==
    /\ consumer = "reading"
    /\ ~suspended
    /\ sphase = "running"
    /\ spc <= Len(StatementsOf(skind, stream_headlines))

\* The endpoint answers with error_response() instead of the analysis: rate
\* limit exceeded or invalid ticker (main.py 531-556, 685-714).
StreamRejected ==
    /\ Running
    /\ spc = 1
    /\ frames' = <<Frame("error", "none")>>
    /\ sphase' = "ended"
    /\ suspended' = TRUE
    /\ effects_at_yield' = stream_effects
    /\ UNCHANGED <<skind, spc, stream_tools_used, stream_headlines, yielded,
                   consumer, saves, stream_effects>>

\* yield emit(StreamEvent(...)) in the generator, then yield event.to_sse()
\* in event_generator (main.py 561-562, 721-722).  json.dumps of a payload
\* may raise: event_generator then yields its own error frame and is over
\* (main.py 585-587, 723-725).
StreamYield ==
    /\ Running
    /\ Statement.op = "yield"
    /\ LET event == [event_type |-> Statement.event_type,
                     tool_name |-> Statement.tool_name,
                     progress |-> Statement.progress,
                     data |-> Statement.data]
       IN  /\ yielded' = Append(yielded, event)
           /\ \E sse_ok \in IF event.data = "none" THEN {TRUE} ELSE BOOLEAN :
                 IF sse_ok
                 THEN /\ frames' = Append(frames,
                                          Frame(event.event_type, event.data))
                      /\ sphase' = sphase
                 ELSE /\ frames' = Append(frames, Frame("error", "none"))
                      /\ sphase' = "ended"
    /\ spc' = spc + 1
    /\ suspended' = TRUE
    /\ effects_at_yield' = stream_effects
    /\ UNCHANGED <<skind, stream_tools_used, stream_headlines, consumer,
                   saves, stream_effects>>

\* A call between two yields: a tool invocation (streaming.py 171-172,
\* 195-196, 219-220, 254-260), the collectors (401-403), the sentiment
\* analysis in its own try (428-449), asyncio.gather of the two analysts
\* (474-481), the rebuttals (514-521), the synthesis (558-565).
StreamCall ==
    /\ Running
    /\ Statement.op = "call"
    /\ stream_effects' = stream_effects + 1
    /\ \E outcome \in {"ok", "raise"}, has_headlines \in BOOLEAN :
          IF outcome = "ok"
          THEN /\ spc' = spc + 1
               /\ sphase' = sphase
               /\ stream_tools_used' =
                     IF skind = "analysis"
                     THEN Append(stream_tools_used, Statement.tool_name)
                     ELSE stream_tools_used
               /\ stream_headlines' =
                     IF Statement.tool_name \in HeadlineSources
                     THEN has_headlines
                     ELSE stream_headlines
          ELSE /\ spc' = IF Statement.guarded THEN spc + 1 ELSE spc
               /\ sphase' = OnRaise(Statement.guarded)
               /\ UNCHANGED <<stream_tools_used, stream_headlines>>
    /\ UNCHANGED <<skind, suspended, yielded, frames, consumer, saves,
                   effects_at_yield>>

\* except Exception: yield the ERROR event (streaming.py 339-345, 595-601);
\* nothing follows it in the generator.
StreamError ==
    /\ consumer = "reading"
    /\ ~suspended
    /\ sphase = "except"
    /\ LET event == [event_type |-> "error", tool_name |-> None,
                     progress |-> ErrorProgress(skind, stream_tools_used),
                     data |-> "none"]
       IN  /\ yielded' = Append(yielded, event)
           /\ frames' = Append(frames, Frame("error", "none"))
    /\ sphase' = "ended"
    /\ suspended' = TRUE
    /\ effects_at_yield' = stream_effects
    /\ UNCHANGED <<skind, spc, stream_tools_used, stream_headlines, consumer,
                   saves, stream_effects>>

\* The consumer asks for the next frame: event_generator resumes after its
\* yield and, in the analysis endpoint, saves the result it has just sent
\* (main.py 564-582; a failing save is logged), then resumes the generator.
RequestNext ==
    /\ consumer = "reading"
    /\ suspended
    /\ suspended' = FALSE
    /\ IF skind = "analysis" /\ CachesResult(frames[Len(frames)])
       THEN /\ \E save_ok \in BOOLEAN : saves' = Append(saves, save_ok)
            /\ stream_effects' = stream_effects + 1
       ELSE UNCHANGED <<saves, stream_effects>>
    /\ UNCHANGED <<skind, spc, sphase, stream_tools_used, stream_headlines,
                   yielded, frames, consumer, effects_at_yield>>

\* The generator has no statement left, or event_generator has left its
\* loop: the response is complete.
StreamReturns ==
    /\ consumer = "reading"
    /\ ~suspended
    /\ \/ sphase = "ended"
       \/ /\ sphase = "running"
          /\ spc > Len(StatementsOf(skind, stream_headlines))
    /\ consumer' = "finished"
    /\ UNCHANGED <<skind, spc, sphase, suspended, stream_tools_used,
                   stream_headlines, yielded, frames, saves, stream_effects,
                   effects_at_yield>>

\* The consumer stops iterating (the client disconnects): the suspended
\* generators are closed where they are.
ConsumerStops ==
    /\ consumer = "reading"
    /\ suspended
    /\ consumer' = "stopped"
    /\ UNCHANGED <<skind, spc, sphase, suspended, stream_tools_used,
                   stream_headlines, yielded, frames, saves, stream_effects,
                   effects_at_yield>>

StreamStep ==
    \/ StreamRejected /\ UNCHANGED outside_stream
    \/ StreamYield /\ UNCHANGED outside_stream
    \/ StreamCall /\ UNCHANGED outside_stream
    \/ StreamError /\ UNCHANGED outside_stream
    \/ RequestNext /\ UNCHANGED outside_stream
    \/ StreamReturns /\ UNCHANGED outside_stream
    \/ ConsumerStops /\ UNCHANGED outside_stream

StreamStart ==
    ReactIdle /\ DebateIdle /\ GradeIdle /\ MonitorIdle /\ StreamInit
    /\ ApiIdle

SpecStream == StreamStart /\ [][StreamStep]_vars

\* ----------------------------------------------------- Streaming claims

\* C17: in every run of a streaming generator the progress values of the
\* yielded events never decrease, and the terminal event carries progress
\* exactly 1.0.
C17_ProgressNonDecreasingEndsAtOne ==
    /\ \A i, j \in 1..Len(yielded) :
          i < j => yielded[i].progress <= yielded[j].progress
    /\ \A i \in 1..Len(yielded) :
          yielded[i].event_type \in TerminalTypes =>
              yielded[i].progress = 100

\* C18: no two events of one run carry the same progress value: the events
\* are yielded in strictly increasing progress.
C18_ProgressStrictlyIncreasing ==
    \A i, j \in 1..Len(yielded) :
        i < j => yielded[i].progress < yielded[j].progress

\* C19: a stream never holds a terminal frame before its last frame, and a
\* fully consumed stream ends with exactly one terminal frame: a completed
\* or debate_completed frame carrying the full payload, or an error frame.
C19_ExactlyOneTerminalLast ==
    /\ \A i \in 1..Len(frames) :
          i < Len(frames) => frames[i].type \notin TerminalTypes
    /\ \A i \in 1..Len(yielded) :
          i < Len(yielded) => yielded[i].event_type \notin TerminalTypes
    /\ consumer = "finished" =>
          /\ frames # <<>>
          /\ frames[Len(frames)].type \in TerminalTypes
          /\ frames[Len(frames)].type # "error" =>
                /\ frames[Len(frames)].data = "full"
                /\ frames[Len(frames)].type =
                      (IF skind = "analysis" THEN "completed"
                       ELSE "debate_completed")

\* C19 witness: a stream was consumed to its end after a call raised: its
\* last frame, and no other, is the error frame.
C19_Witness ==
    /\ consumer = "finished"
    /\ Len(yielded) > 2
    /\ yielded[Len(yielded)].event_type = "error"
    /\ frames[Len(frames)].type = "error"

\* C20: the cache is written at most once, in the analysis endpoint, only
\* after the completed frame went out; a consumer that stopped has caused
\* no cache write, and nothing was done past the last frame it received.
C20_CacheWriteOnlyAfterCompleted ==
    /\ saves # <<>> =>
          /\ skind = "analysis"
          /\ Len(saves) = 1
          /\ frames[Len(frames)].type = "completed"
          /\ yielded[Len(yielded)].event_type = "completed"
    /\ consumer = "stopped" =>
          /\ saves = <<>>
          /\ stream_effects = effects_at_yield

\* C20 witness: the consumer stopped at the completed frame of an analysis,
\* after the tools ran, and nothing was saved.
C20_Witness ==
    /\ skind = "analysis"
    /\ consumer = "stopped"
    /\ frames[Len(frames)].type = "completed"
    /\ stream_effects > 0
    /\ saves = <<>>

\* ---------------------------------------------------------------------
\* The rate limiter of the HTTP surface (main.py 34-69).
\* ---------------------------------------------------------------------

RECURSIVE SelectTimes(_, _)
\* [req_time for req_time in times if req_time > minute_ago]
SelectTimes(times, minute_ago) ==
    IF times = <<>> THEN <<>>
    ELSE IF Head(times) > minute_ago
         THEN <<Head(times)>> \o SelectTimes(Tail(times), minute_ago)
         ELSE SelectTimes(Tail(times), minute_ago)

\* A limiter that refuses only above the quota.
QuotaReachedOffByOne(recent) == Len(recent) > RequestsPerMinute

\* len(self.requests[client_id]) >= self.requests_per_minute
QuotaReached(recent) == Len(recent) >= RequestsPerMinute

\* A limiter that also counts the requests it refuses.
is_allowed_counting_refusals(reqs, client_id, now) ==
    LET recent == SelectTimes(reqs[client_id], now - WindowTicks)
    IN  [allowed |-> ~QuotaReached(recent),
         requests |-> [reqs EXCEPT ![client_id] = Append(recent, now)]]

\* is_allowed: the answer, and the limiter's table after the call.
is_allowed(reqs, client_id, now) ==
    LET recent == SelectTimes(reqs[client_id], now - WindowTicks)
    IN  IF QuotaReached(recent)
        THEN [allowed |-> FALSE,
              requests |-> [reqs EXCEPT ![client_id] = recent]]
        ELSE [allowed |-> TRUE,
              requests |->
                  [reqs EXCEPT ![client_id] = Append(recent, now)]]

\* get_remaining: the number it returns, and the limiter's table after
\* the call, which it only reads.
get_remaining(reqs, client_id, now) ==
    LET recent == SelectTimes(reqs[client_id], now - WindowTicks)
    IN  [remaining |-> IF RequestsPerMinute - Len(recent) > 0
                       THEN RequestsPerMinute - Len(recent)
                       ELSE 0,
         requests |-> reqs]

\* The requests of a client the limiter allowed in the window (t - W, t].
AllowedIn(client_id, t) ==
    {i \in 1..Len(allowed_log[client_id]) :
        /\ allowed_log[client_id][i] > t - WindowTicks
        /\ allowed_log[client_id][i] <= t}

\* One call of rate_limiter.is_allowed, with its history.
Limit(client_id) ==
    LET d == is_allowed(requests, client_id, clock)
    IN  /\ requests' = d.requests
        /\ allowed_log' =
              IF d.allowed
              THEN [allowed_log EXCEPT
                       ![client_id] = Append(allowed_log[client_id], clock)]
              ELSE allowed_log
        /\ last_decision' =
              [client_id |-> client_id, at |-> clock,
               allowed |-> d.allowed,
               own_recent |-> Cardinality(AllowedIn(client_id, clock)),
               remaining |-> -1]
        /\ UNCHANGED clock

\* rate_limiter.get_remaining(client_ip), asked after a refusal (main.py
\* 218-219).
RemainingCall ==
    /\ last_decision.client_id # None
    /\ ~last_decision.allowed
    /\ last_decision.remaining = -1
    /\ LET r == get_remaining(requests, last_decision.client_id, clock)
       IN  /\ requests' = r.requests
           /\ last_decision' =
                 [last_decision EXCEPT !.remaining = r.remaining]
    /\ UNCHANGED <<clock, allowed_log>>

\* time.time() moves on.
Tick ==
    /\ clock < MaxClock
    /\ clock' = clock + 1
    /\ UNCHANGED <<requests, allowed_log, last_decision>>

\* A request reaches the limiter.
LimiterCall == \E c \in Clients : Limit(c)

rest_of_api == <<cache, api_request, response, api_calls, api_trace>>

LimiterStep ==
    \/ Tick /\ UNCHANGED rest_of_api /\ UNCHANGED outside_api
    \/ LimiterCall /\ UNCHANGED rest_of_api /\ UNCHANGED outside_api
    \/ RemainingCall /\ UNCHANGED rest_of_api /\ UNCHANGED outside_api

LimiterStart ==
    ReactIdle /\ DebateIdle /\ GradeIdle /\ MonitorIdle /\ StreamIdle
    /\ ApiIdle

SpecLimiter == LimiterStart /\ [][LimiterStep]_vars

\* C24: for every client and every window of WindowTicks ticks, the
\* limiter allowed at most RequestsPerMinute requests of that client; and
\* its answer to a client depends on that client's own allowed requests of
\* the current window only: it refuses exactly when the client used up its
\* quota, whatever the other clients did.
C24_QuotaPerClientPerWindow ==
    /\ \A c \in Clients : \A t \in 0..clock :
          Cardinality(AllowedIn(c, t)) <= RequestsPerMinute
    /\ last_decision.client_id # None =>
          (last_decision.allowed <=>
              last_decision.own_recent < RequestsPerMinute)

\* C24 witness: one client has used up its quota in the current window and
\* the other client's request, made in the same window, is allowed.
C24_Witness ==
    /\ \E c \in Clients :
          /\ c # last_decision.client_id
          /\ Cardinality(AllowedIn(c, clock)) = RequestsPerMinute
    /\ last_decision.client_id # None
    /\ last_decision.allowed
    /\ last_decision.at = clock
    /\ clock > 0

\* ---------------------------------------------------------------------
\* The analysis endpoints (main.py 199-401, 515-735), the ticker check
\* (validation.py) and the analysis cache (db/database.py).
\* ---------------------------------------------------------------------

\* The endpoints are followed for the requests one client makes within one
\* tick of the clock; SpecLimiter follows the limiter for several clients
\* and a running clock.
Callers == {"c1"}

\* The existence lookup is made for a well-formed ticker only.
Lookups(shape) == IF shape = "unlisted" THEN BOOLEAN ELSE {TRUE}

\* What the path parameter looks like: not matching ^[A-Z]{1,5}$, well
\* formed but unknown to the market data source, or a listed symbol.
TickerShapes == {"malformed", "unlisted", "listed"}

\* validate_ticker: the format first, the existence lookup only for a
\* well-formed ticker; a lookup that raises does not block the request.
validate_ticker(shape, lookup_ok) ==
    IF shape = "malformed" THEN [is_valid |-> FALSE, calls |-> {}]
    ELSE [is_valid |-> shape = "listed" \/ ~lookup_ok,
          calls |-> {"exists_lookup"}]

\* The rows of a ticker, by position in insertion order.
RowsOf(rows, ticker) == {i \in 1..Len(rows) : rows[i].ticker = ticker}

\* A read that returns the first row ever written for the ticker.
get_oldest_analysis(rows, ticker, read_ok) ==
    IF ~read_ok \/ RowsOf(rows, ticker) = {} THEN 0
    ELSE CHOOSE i \in RowsOf(rows, ticker) :
             \A j \in RowsOf(rows, ticker) : i <= j

\* get_latest_analysis: order by created_at descending, limit 1; None when
\* there is no row and when the read raises. 0 stands for None.
get_latest_analysis(rows, ticker, read_ok) ==
    IF ~read_ok \/ RowsOf(rows, ticker) = {} THEN 0
    ELSE CHOOSE i \in RowsOf(rows, ticker) :
             \A j \in RowsOf(rows, ticker) : i >= j

\* save_analysis: one insert; the callers here swallow its exception. A
\* row is identified by its position.
save_analysis(rows, ticker, save_ok) ==
    IF save_ok THEN Append(rows, [ticker |-> ticker]) ELSE rows

\* What run_react_analysis returns: a completed run (whose final text may
\* itself start with "Analysis failed"), a run stopped at the iteration
\* ceiling, or the fallback after an exception; on the way the model may
\* have called the save_analysis_results tool.
RunResults ==
    {[summary |-> s, error |-> None, tool_saved |-> b] :
        s \in {"comprehensive", "analysis_failed_text"}, b \in BOOLEAN}
    \cup {[summary |-> "", error |-> "Reached maximum iterations",
           tool_saved |-> b] : b \in BOOLEAN}
    \cup {[summary |-> "temporarily_unavailable",
           error |-> "ReAct Agent error", tool_saved |-> b] :
              b \in BOOLEAN}

\* HTTPException(status_code, detail)
Detail(status, remaining_reported) ==
    [status |-> status, body |-> "detail",
     remaining_reported |-> remaining_reported, row |-> 0,
     error_text |-> TRUE, ticker_field |-> FALSE,
     timestamp_field |-> FALSE]

\* StreamingResponse of one frame {type: error, message}
SseError ==
    [status |-> 200, body |-> "sse_error", remaining_reported |-> FALSE,
     row |-> 0, error_text |-> TRUE, ticker_field |-> FALSE,
     timestamp_field |-> FALSE]

\* StreamingResponse(event_generator())
SseStream ==
    [status |-> 200, body |-> "sse", remaining_reported |-> FALSE,
     row |-> 0, error_text |-> FALSE, ticker_field |-> FALSE,
     timestamp_field |-> FALSE]

\* The body of a successful answer: "cached", "fresh" or "debate".
Data(body, row) ==
    [status |-> 200, body |-> body, remaining_reported |-> FALSE,
     row |-> row, error_text |-> FALSE, ticker_field |-> TRUE,
     timestamp_field |-> TRUE]

\* analyze_stock after run_react_analysis returned (main.py 284-301,
\* 350-387).
AnalyzeOutcome(final_state) ==
    IF final_state.error # None THEN Detail(500, FALSE)
    ELSE IF final_state.summary \in {"", "analysis_failed_text"}
         THEN Detail(500, FALSE)
         ELSE Data("fresh", 0)

\* analyze_stock_debate after run_debate_analysis returned (main.py
\* 642-655).
DebateOutcome(debate_result) ==
    IF debate_result.error # None THEN Detail(500, FALSE)
    ELSE Data("debate", 0)

\* The error event of a stream as the client reads it (streaming.py 55-67,
\* 595-601): type, message and timestamp, no ticker and no data.
ErrorFrame ==
    [status |-> 200, body |-> "error_event", remaining_reported |-> FALSE,
     row |-> 0, error_text |-> TRUE, ticker_field |-> FALSE,
     timestamp_field |-> TRUE]

\* What the caller of the debate gets once the pipeline has returned: the
\* endpoint's answer, or the last event of the stream.
DebateSeen(mode, debate_result) ==
    IF mode = "blocking" THEN DebateOutcome(debate_result)
    ELSE IF debate_result.error # None THEN ErrorFrame
    ELSE Data("debate", 0)

\* The request as received.
Receive(endpoint, ticker, shape, force) ==
    api_request' = [endpoint |-> endpoint, ticker |-> ticker,
                    shape |-> shape, force |-> force]

\* What the cache held for the ticker when the request was accepted; the
\* Authorization header is read only once the analysis is complete.
Trace(ticker, read_ok) ==
    [had_row |-> RowsOf(cache, ticker) # {}, rows_before |-> Len(cache),
     read_ok |-> read_ok, authorization |-> NoAuthorization,
     check_user |-> None, check_raised |-> FALSE, alerts_for |-> {}]

\* The Authorization headers a request may carry, as authorization.split(" ")
\* sees them: none, a Bearer token of a user, a token that does not verify,
\* another scheme, a token after two spaces.
Authorizations ==
    {NoAuthorization}
    \cup {[present |-> TRUE, parts |-> ps] :
             ps \in {<<"bearer", "token_u2">>, <<"Bearer", "expired">>,
                     <<"Basic", "token_u1">>, <<"Bearer", "", "token_u1">>}}

\* parts[0].lower() (main.py 330)
LowerScheme(scheme) ==
    CASE scheme = "Bearer" -> "bearer"
      [] scheme = "Basic" -> "basic"
      [] OTHER -> scheme

\* verify_user_token (supabase_client.py 57-81): the id of the token's
\* user, None for a token that does not verify or when the call fails.
verify_user_token(access_token) ==
    CASE access_token = "token_u1" -> "u1"
      [] access_token = "token_u2" -> "u2"
      [] OTHER -> None

\* Any header of two parts is taken for a Bearer token.
KillCheckUserAnyScheme(authorization) ==
    IF ~authorization.present THEN None
    ELSE IF Len(authorization.parts) = 2
    THEN verify_user_token(authorization.parts[2])
    ELSE None

\* The user the kill-criteria check is run for (main.py 322-333), None
\* when it is not run.
KillCheckUser(authorization) ==
    IF ~authorization.present THEN None
    ELSE IF /\ Len(authorization.parts) = 2
            /\ LowerScheme(authorization.parts[1]) = "bearer"
    THEN verify_user_token(authorization.parts[2])
    ELSE None

\* The theses table at the time of the check: no row or one row.
CheckStores == {<<>>} \cup {<<t>> : t \in ThesisShapes}

\* The users the alerts of check_kill_criteria_for_ticker are created for
\* (monitor.py 355-411): user_id, when the user has an active thesis with
\* criteria on the ticker and a match reaches the threshold.
AlertsCreatedFor(store, user_id, ticker, matched) ==
    IF matched /\ ActiveTheses(get_user_theses(StoreRows(store), user_id,
                                               ticker)) # <<>>
    THEN {user_id}
    ELSE {}

\* What the guarded check may come to (main.py 322-346): not run, run and
\* raising, or run and returning the alerts it created.
CheckResults(user, ticker) ==
    IF user = None THEN {[raised |-> FALSE, alerts_for |-> {}]}
    ELSE {[raised |-> TRUE, alerts_for |-> {}]}
         \cup {[raised |-> FALSE,
                 alerts_for |-> AlertsCreatedFor(store, user, ticker, matched)] :
                   store \in CheckStores, matched \in BOOLEAN}

\* POST /analyze/{ticker}
AnalyzeStock ==
    \E c \in Callers, ticker \in Tickers, shape \in TickerShapes,
       force \in BOOLEAN :
        \E lookup_ok \in Lookups(shape) :
        LET d == is_allowed(requests, c, clock)
            v == validate_ticker(shape, lookup_ok)
            read == IF force THEN {} ELSE {"cache_read"}
        IN  /\ Limit(c)
            /\ Receive("analyze", ticker, shape, force)
            /\ IF ~d.allowed
               THEN /\ response' = Detail(429, TRUE)
                    /\ api_calls' = {}
                    /\ UNCHANGED <<cache, api_trace>>
               ELSE IF ~v.is_valid
               THEN /\ response' = Detail(400, FALSE)
                    /\ api_calls' = v.calls
                    /\ UNCHANGED <<cache, api_trace>>
               ELSE \E read_ok \in (IF force THEN {TRUE} ELSE BOOLEAN) :
                    LET cached_analysis ==
                            IF force THEN 0
                            ELSE get_latest_analysis(cache, ticker, read_ok)
                        trace == Trace(ticker, read_ok)
                    IN  IF cached_analysis # 0
                        THEN /\ response' = Data("cached", cached_analysis)
                             /\ api_calls' = v.calls \cup read
                             /\ cache' = cache
                             /\ api_trace' = trace
                        ELSE \E final_state \in RunResults :
                             LET by_tool ==
                                     save_analysis(cache, ticker,
                                         final_state.tool_saved)
                                 out == AnalyzeOutcome(final_state)
                             IN  /\ response' = out
                                 /\ IF out.status # 200
                                    THEN /\ api_calls' =
                                             v.calls \cup read \cup
                                             {"analysis_run", "model_call"}
                                         /\ cache' = by_tool
                                         /\ api_trace' = trace
                                    ELSE \E save_ok \in BOOLEAN,
                                            authorization \in Authorizations :
                                         LET user ==
                                                 KillCheckUser(authorization)
                                             ran == IF user = None THEN {}
                                                    ELSE {"kill_check"}
                                         IN
                                         \E check \in
                                                CheckResults(user, ticker) :
                                         /\ api_calls' =
                                             v.calls \cup read \cup
                                             {"analysis_run", "model_call",
                                              "cache_write"}
                                             \cup ran
                                         /\ cache' =
                                             save_analysis(by_tool, ticker,
                                                           save_ok)
                                         /\ api_trace' =
                                             [trace EXCEPT
                                                 !.authorization =
                                                     authorization,
                                                 !.check_user = user,
                                                 !.check_raised =
                                                     check.raised,
                                                 !.alerts_for =
                                                     check.alerts_for]
            /\ Len(cache') <= MaxCacheRows

\* GET /analyze/{ticker}/stream and GET /analyze/debate/{ticker}/stream,
\* up to the StreamingResponse they return.
AnalyzeStockStream ==
    \E c \in Callers, ticker \in Tickers, shape \in TickerShapes,
       endpoint \in {"analyze_stream", "debate_stream"} :
        \E lookup_ok \in Lookups(shape) :
        LET d == is_allowed(requests, c, clock)
            v == validate_ticker(shape, lookup_ok)
        IN  /\ Limit(c)
            /\ Receive(endpoint, ticker, shape, FALSE)
            /\ IF ~d.allowed
               THEN response' = SseError /\ api_calls' = {}
               ELSE IF ~v.is_valid
               THEN response' = SseError /\ api_calls' = v.calls
               ELSE response' = SseStream /\ api_calls' = v.calls
            /\ UNCHANGED <<cache, api_trace>>

\* event_generator of the analysis stream: the stream runs the tools and,
\* at the completed event, saves the result (main.py 559-587).
StreamSaves ==
    \E save_ok \in BOOLEAN :
        /\ api_request.endpoint = "analyze_stream"
        /\ response = SseStream
        /\ "analysis_run" \notin api_calls
        /\ api_calls' = api_calls \cup {"analysis_run", "cache_write"}
        /\ cache' = save_analysis(cache, api_request.ticker, save_ok)
        /\ Len(cache') <= MaxCacheRows
        /\ UNCHANGED <<limiter_vars, api_request, response, api_trace>>

\* POST /analyze/debate/{ticker}
AnalyzeStockDebate ==
    \E c \in Callers, ticker \in Tickers, shape \in TickerShapes,
       debate_result \in {[error |-> None], [error |-> "exception"]} :
        \E lookup_ok \in Lookups(shape) :
        LET d == is_allowed(requests, c, clock)
            v == validate_ticker(shape, lookup_ok)
        IN  /\ Limit(c)
            /\ Receive("debate", ticker, shape, FALSE)
            /\ IF ~d.allowed
               THEN response' = Detail(429, FALSE) /\ api_calls' = {}
               ELSE IF ~v.is_valid
               THEN response' = Detail(400, FALSE) /\ api_calls' = v.calls
               ELSE /\ response' = DebateOutcome(debate_result)
                    /\ api_calls' = v.calls \cup
                          {"analysis_run", "model_call"}
            /\ UNCHANGED <<cache, api_trace>>

ApiStep ==
    \/ AnalyzeStock /\ UNCHANGED outside_api
    \/ AnalyzeStockStream /\ UNCHANGED outside_api
    \/ StreamSaves /\ UNCHANGED outside_api
    \/ AnalyzeStockDebate /\ UNCHANGED outside_api

ApiStart ==
    ReactIdle /\ DebateIdle /\ GradeIdle /\ MonitorIdle /\ StreamIdle
    /\ ApiIdle

SpecApi == ApiStart /\ [][ApiStep]_vars

\* The last request was a POST /analyze that passed the rate limiter and
\* the ticker check.
Accepted ==
    /\ api_request.endpoint = "analyze"
    /\ response.status \notin {400, 429}

\* C23: a request with a malformed ticker that passed the rate limiter is
\* answered with a 400-class status, and no external call (existence
\* lookup, cache read, analysis run, model call) was made for it, on every
\* analysis endpoint.
C23_MalformedTickerGets400 ==
    (api_request.shape = "malformed" /\ last_decision.allowed) =>
        /\ response.status \in 400..499
        /\ api_calls = {}

\* C25: every request the rate limiter refuses is answered with status
\* 429 and a body that reports the remaining quota, on each of the four
\* analysis endpoints.
C25_RefusalIs429WithRemaining ==
    (api_request.endpoint # None /\ ~last_decision.allowed) =>
        /\ response.status = 429
        /\ response.remaining_reported

C21_NoCacheWriteInsideTheRun ==
    \A i \in 1..Len(tool_results) :
        ~(/\ tool_results[i].name = "save_analysis_results"
          /\ tool_results[i].invoked
          /\ tool_results[i].success)

\* C22: a run that ended at the iteration ceiling is answered by POST
\* /analyze with an HTTP success carrying the partial result and the error
\* text, not with a 5xx status.
C22_CeilingIsHttpSuccess ==
    (/\ variant = "orchestration"
     /\ pc = "done"
     /\ final_decision = "MAX_ITERATIONS_REACHED") =>
        /\ AnalyzeOutcome(result).status = 200
        /\ AnalyzeOutcome(result).body = "fresh"
        /\ AnalyzeOutcome(result).error_text

\* C26: a run that fetched the news, got no headline, and whose sentiment
\* analysis therefore produced no report ends with overall_sentiment
\* "Insufficient Data".
C26_NoHeadlinesInsufficientData ==
    (/\ variant = "orchestration"
     /\ pc = "done"
     /\ ~result.aborted
     /\ {"fetch_news_headlines", "analyze_sentiment"} \subseteq tools_used
     /\ headlines = <<>>
     /\ sentiment_report = "") =>
        overall_sentiment = "Insufficient Data"

\* C30: the orchestration loop goes from reasoning to acting exactly when
\* the model's turn requests at least one tool call; the acting step always
\* hands back to reasoning, having appended one result per requested call
\* in request order; a run that returns its final state ends with COMPLETE
\* or MAX_ITERATIONS_REACHED.
C30_LoopAlternatesAndTerminatesTagged ==
    variant = "orchestration" =>
        /\ pc = "tools" => last_message.tool_calls # <<>>
        /\ (pc = "end" /\ final_decision # "MAX_ITERATIONS_REACHED") =>
              last_message.tool_calls = <<>>
        /\ pc = "raised" => last_message.kind # "ai"
        /\ (/\ pc = "agent"
            /\ last_message.kind = "ai"
            /\ last_message.tool_calls # <<>>) =>
              /\ Len(tool_results) = Len(last_message.tool_calls)
              /\ \A i \in 1..Len(tool_results) :
                    tool_results[i].name = last_message.tool_calls[i]
        /\ (pc = "done" /\ ~result.aborted) =>
              final_decision \in {"COMPLETE", "MAX_ITERATIONS_REACHED"}

\* ------------------------------------------------- Alerts of the sweep

\* The attempted inserts and the alert rows of one match.
AttemptsOf(m) ==
    {i \in 1..Len(insert_attempts) :
        /\ insert_attempts[i].row.thesis_id = m.thesis_id
        /\ insert_attempts[i].row.match_confidence = m.match_confidence}

AlertsOf(m) ==
    {i \in 1..Len(alerts) :
        /\ alerts[i].thesis_id = m.thesis_id
        /\ alerts[i].match_confidence = m.match_confidence}

\* The row carries the user and the ticker of the thesis it names.
OwnIdentity(row) ==
    /\ row.thesis_id \in 1..Len(thesis_store)
    /\ row.user_id = thesis_store[row.thesis_id].user_id
    /\ row.ticker = thesis_store[row.thesis_id].ticker
    /\ Declares(thesis_store[row.thesis_id])

C29_DebateFailurePreservesContext ==
    (dpc = "done" /\ dresult.error # None) =>
        /\ dresult.verdict = None
        /\ dresult.bull_case = None
        /\ dresult.bear_case = None
        /\ DebateSeen(dmode, dresult).body # "debate"
        /\ DebateSeen(dmode, dresult).error_text
        /\ DebateSeen(dmode, dresult).ticker_field
        /\ DebateSeen(dmode, dresult).timestamp_field

\* ------------------------------------------------ What the limiter counts

\* The last n elements of a sequence.
Suffix(seq, n) == SubSeq(seq, Len(seq) - n + 1, Len(seq))

\* C39: the limiter counts allowed requests only: the counted times of a
\* client are always the most recent of the requests it was allowed, a
\* call (refused or not) leaves exactly the allowed requests of the last 60
\* seconds counted, plus the call itself when it is allowed, and asking for
\* the remaining quota after a refusal, at whatever time, leaves the
\* counted requests as that call left them.
C39_RefusedRequestsNotCounted ==
    /\ \A c \in Clients :
          /\ Len(requests[c]) <= Len(allowed_log[c])
          /\ requests[c] = Suffix(allowed_log[c], Len(requests[c]))
          /\ Len(requests[c]) <= RequestsPerMinute
    /\ last_decision.client_id # None =>
          /\ requests[last_decision.client_id] =
                SelectTimes(allowed_log[last_decision.client_id],
                            last_decision.at - WindowTicks)

\* C39 witness: a client was refused in a call that dropped an old entry,
\* and its remaining quota was asked for: the refused request is not among
\* the counted ones.
C39_Witness ==
    /\ last_decision.client_id # None
    /\ ~last_decision.allowed
    /\ last_decision.remaining # -1
    /\ Len(allowed_log[last_decision.client_id])
          > Len(requests[last_decision.client_id])
    /\ Len(requests[last_decision.client_id]) = RequestsPerMinute

\* --------------------------------------------- Frame of a failed tool call

\* No result of the tool step's turn is a success of the named tool.
NoSuccessOf(results, name) ==
    \A i \in 1..Len(results) : ~(results[i].name = name /\ results[i].success)

\* What one tool step may change when the named tool had no success.
FrameOfFailedCalls ==
    (pc = "tools" /\ variant = "orchestration") =>
        /\ NoSuccessOf(tool_results', "fetch_news_headlines") =>
              headlines' = headlines
        /\ NoSuccessOf(tool_results', "fetch_price_data") =>
              price_data' = price_data
        /\ NoSuccessOf(tool_results', "fetch_fundamentals") =>
              fundamental_data' = fundamental_data
        /\ NoSuccessOf(tool_results', "analyze_sentiment") =>
              /\ sentiment_report' = sentiment_report
              /\ overall_sentiment' = overall_sentiment
        /\ NoSuccessOf(tool_results', "generate_skeptic_critique") =>
              skeptic_report' = skeptic_report
        /\ tools_used \subseteq tools_used'

\* C36: in every tool step, a data field of the state whose tool had no
\* successful result in that step keeps its value: failed and unknown-tool
\* calls change no data field, whatever was stored before; tools_used only
\* grows.
C36_FailedCallChangesNoData == [][FrameOfFailedCalls]_vars

\* C36 witness: the state holds headlines and a skeptic report from earlier
\* turns, and the turn just handled consisted of calls that all failed.
C36_Witness ==
    /\ variant = "orchestration"
    /\ pc = "agent"
    /\ headlines # <<>>
    /\ skeptic_report # ""
    /\ tool_results # <<>>
    /\ \A i \in 1..Len(tool_results) :
          ~tool_results[i].success /\ ~tool_results[i].cached

\* ------------------------------------------------ Stages of a stream

\* C31: in the events a streaming generator yields, every TOOL_COMPLETED
\* comes right after the TOOL_STARTED of the same tool, and in a run that
\* ended with its completed event every TOOL_STARTED is followed at once by
\* the TOOL_COMPLETED of the same tool.
C31_ToolStartedCompletedPairs ==
    /\ \A i \in 1..Len(yielded) :
          yielded[i].event_type = "tool_completed" =>
              /\ i > 1
              /\ yielded[i - 1].event_type = "tool_started"
              /\ yielded[i - 1].tool_name = yielded[i].tool_name
    /\ (/\ yielded # <<>>
        /\ yielded[Len(yielded)].event_type
              \in {"completed", "debate_completed"}) =>
          \A i \in 1..Len(yielded) :
              yielded[i].event_type = "tool_started" =>
                  /\ i < Len(yielded)
                  /\ yielded[i + 1].event_type = "tool_completed"
                  /\ yielded[i + 1].tool_name = yielded[i].tool_name

\* C31 witness: an analysis stream with headlines ended with its completed
\* event after all four tool stages.
C31_Witness ==
    /\ skind = "analysis"
    /\ yielded # <<>>
    /\ yielded[Len(yielded)].event_type = "completed"
    /\ Cardinality({i \in 1..Len(yielded) :
                       yielded[i].event_type = "tool_completed"}) = 4

\* C32: the three initial data fetches of a debate run (fundamentals,
\* headlines, price) are dispatched concurrently: every one of them has been
\* started before any of them has been awaited to completion.
C32_FetchesDispatchedBeforeAnyCompletes ==
    PhaseAt("collect_done") # 0 =>
        \A i \in 1..Len(DebateCollectors), j \in 1..Len(DebateCollectors) :
            Before("dispatch_" \o DebateCollectors[i], "done_" \o DebateCollectors[j])

\* ------------------------------------------- Model calls of one check

\* C33: one on-demand kill-criteria check makes a single signal-extraction
\* call and then a single matching call for the user, whatever the number of
\* the user's active theses on the ticker (match_log holds one entry per
\* match_signals_to_criteria call made with signals and criteria).
C33_OneMatchingCallPerUser ==
    mmode = "on_demand" =>
        /\ extract_calls <= 1
        /\ Len(match_log) <= 1

\* ------------------------------------------- Grades and strengths of a side

\* The claims of the two cases, Bull's first, as _grade_evidence walks them.
ClaimsGraded ==
    evidence.bull_case.key_claims \o evidence.bear_case.key_claims

\* The rebuttals written by the side opposing the claim at position i.
OpposingRebuttals(i) ==
    IF i <= Len(evidence.bull_case.key_claims)
    THEN evidence.bear_rebuttals
    ELSE evidence.bull_rebuttals

\* The positions of the opposing rebuttals whose target text holds one of
\* the first three words of the claim at position i.
MatchingPositions(i) ==
    LET words == ClaimsGraded[i].statement
        opp == OpposingRebuttals(i)
    IN  {j \in 1..Len(opp) :
            \E k \in 1..Len(words) :
                k <= 3 /\ WordInTarget(words[k], opp[j].target_claim)}

\* C34: the argument strength of a side is the mean final credibility over
\* exactly that side's evidence grades, one grade per claim of the side, and
\* it is 0.5 for a side without claims.
C34_StrengthIsMeanOfOwnGrades ==
    gpc = "synthesized" =>
        LET g == graded.evidence_grades
            nb == Len(evidence.bull_case.key_claims)
            ne == Len(evidence.bear_case.key_claims)
            Mean(from, n) ==
                IF n = 0 THEN [num |-> AsCredibility(50), den |-> 1]
                ELSE [num |-> SumCredibility(SubSeq(g, from, from + n - 1)),
                      den |-> n]
        IN  /\ Len(g) = nb + ne
            /\ \A i \in 1..Len(g) :
                  g[i].source_agent = IF i <= nb THEN "bull" ELSE "bear"
            /\ graded.bull_argument_strength = Mean(1, nb)
            /\ graded.bear_argument_strength = Mean(nb + 1, ne)

\* C34 witness: Bull's two claims were graded to different credibilities and
\* Bull's strength is their mean, while Bear, with claims of its own, has a
\* strength of its own.
C34_Witness ==
    /\ gpc = "synthesized"
    /\ Len(evidence.bull_case.key_claims) = 2
    /\ Len(evidence.bear_case.key_claims) = 1
    /\ graded.evidence_grades[1].final_credibility
          # graded.evidence_grades[2].final_credibility
    /\ graded.bull_argument_strength.den = 2
    /\ graded.bull_argument_strength.num =
          graded.evidence_grades[1].final_credibility
          + graded.evidence_grades[2].final_credibility
    /\ graded.bear_argument_strength.den = 1
    /\ graded.bear_argument_strength.num
          = graded.evidence_grades[3].final_credibility
    /\ graded.bear_argument_strength.num * 2
          # graded.bull_argument_strength.num

\* C35: a claim is graded against the first rebuttal, in list order, of the
\* opposing side whose target text holds one of the claim's first three
\* words, letter case aside: a Bull claim against Bear's rebuttals only and
\* a Bear claim against Bull's only; when none matches, the grade has no
\* counter evidence and a rebuttal strength of 0.
C35_FirstMatchingOpposingRebuttal ==
    gpc = "synthesized" =>
        \A i \in 1..Len(graded.evidence_grades) :
            LET g == graded.evidence_grades[i]
                M == MatchingPositions(i)
                first == CHOOSE j \in M : \A k \in M : j <= k
            IN  IF M = {}
                THEN ~g.has_counter_evidence /\ g.rebuttal_strength = 0
                ELSE /\ g.has_counter_evidence
                     /\ g.rebuttal_strength
                           = OpposingRebuttals(i)[first].strength

\* C35 witness: a Bull claim that two of Bear's rebuttals match, one of them
\* by letter case only, was graded with the strength of the first; a Bear
\* claim that Bear's own rebuttals match and Bull's do not has no counter
\* evidence.
C35_Witness ==
    /\ gpc = "synthesized"
    /\ Len(evidence.bull_case.key_claims) = 1
    /\ Len(evidence.bear_case.key_claims) = 1
    /\ evidence.bull_case.key_claims[1].statement = <<"Debt", "is", "rising">>
    /\ MatchingPositions(1) = {1, 2}
    /\ evidence.bear_rebuttals[1].strength # evidence.bear_rebuttals[2].strength
    /\ graded.evidence_grades[1].rebuttal_strength
          = evidence.bear_rebuttals[1].strength
    /\ evidence.bull_rebuttals # <<>>
    /\ MatchingPositions(2) = {}
    /\ FindMatchingRebuttal(evidence.bear_case.key_claims[1].statement,
                            evidence.bear_rebuttals, 1) # 0
    /\ ~graded.evidence_grades[2].has_counter_evidence

\* ------------------------------------------- Matches name what was given

\* C37: every match match_signals_to_criteria returns has as criteria one
\* element of the kill_criteria list it was given and as signal the text of
\* one element of the signals list, whatever index pairs the model returns;
\* with an empty signals list or an empty criteria list it returns no match
\* and calls no model.
C37_MatchesNameGivenElements ==
    (mmode = "matching" /\ mpc = "done") =>
        /\ \A i \in 1..Len(match_result.matches) :
              /\ match_result.matches[i].criteria
                    \in Range(match_call.kill_criteria)
              /\ \E k \in 1..Len(match_call.signals) :
                    match_result.matches[i].signal = match_call.signals[k].text
        /\ (match_call.signals = <<>> \/ match_call.kill_criteria = <<>>) =>
              /\ match_result.matches = <<>>
              /\ match_result.model_calls = 0

\* C37 witness: the model returned a pair past the end of the signals and a
\* pair of negative indices; the one match returned names the last
\* criterion and the last signal.
C37_Witness ==
    /\ mmode = "matching"
    /\ mpc = "done"
    /\ Len(match_call.reply.items) = 2
    /\ match_call.reply.items[1].signal_index = IntIndex(2)
    /\ match_call.reply.items[2].criteria_index = IntIndex(-1)
    /\ match_result.model_calls = 1
    /\ match_result.matches =
          <<[criteria |-> "ceo departs", signal |-> "ceo left"]>>

\* ------------------------------------------- A failed turn of the sweep

\* C38: in a sweep, a turn that fails (the analysis, the signal extraction
\* or the matching raising, an alert insert failing) does not stop the
\* sweep: when the sweep is over every ticker of the fetched theses has had
\* its turn and its analysis, every ticker whose turn did not fail has had
\* each of its theses with criteria matched, and the sweep ends as done.
C38_FailedTurnDoesNotStopSweep ==
    mmode = "sweep" =>
        /\ mpc \in {"fetch", "tickers", "done"}
        /\ mpc = "done" =>
              /\ [i \in 1..Len(turns) |-> turns[i].ticker] = TickerKeys(theses)
              /\ \A i \in 1..Len(turns) : analysis_runs[turns[i].ticker] = 1
        /\ \A i \in 1..Len(turns) :
              turns[i].outcome = "checked" =>
                  \A j \in 1..Len(theses) :
                      (/\ theses[j].ticker = turns[i].ticker
                       /\ theses[j].kill_criteria = "some") =>
                          \E m \in 1..Len(match_log) :
                              match_log[m].thesis_id = theses[j].id

\* C38 witness: the first turn of a sweep raised, the second ticker was
\* analysed and its thesis matched all the same, with an alert insert that
\* failed on the way.
C38_Witness ==
    /\ mmode = "sweep"
    /\ mpc = "done"
    /\ Len(turns) = 2
    /\ turns[1].outcome
          \in {"analysis_raised", "extraction_raised", "matching_raised"}
    /\ turns[2].outcome = "checked"
    /\ analysis_runs[turns[2].ticker] = 1
    /\ \E m \in 1..Len(match_log) : match_log[m].ticker = turns[2].ticker
    /\ \E a \in 1..Len(insert_attempts) : ~insert_attempts[a].inserted

\* ------------------------------------------- The guarded kill-criteria check

\* C40: on POST /analyze/{ticker} the kill-criteria check is run only after
\* a fresh analysis that completed without error, and only for a header of
\* exactly the scheme Bearer (in any letter case) and a token that verifies,
\* with the token's user; it is not run on a cache hit nor without a
\* header; alerts are created for that user only; and the answer is the
\* successful fresh analysis whether the check raised or the cache save
\* failed.
C40_KillCheckOnlyForVerifiedUser ==
    Accepted =>
        /\ "kill_check" \in api_calls =>
              /\ response.status = 200 /\ response.body = "fresh"
              /\ "analysis_run" \in api_calls
              /\ api_trace.authorization.present
              /\ Len(api_trace.authorization.parts) = 2
              /\ api_trace.authorization.parts[1] \in {"Bearer", "bearer"}
              /\ api_trace.authorization.parts[2] = "token_u2"
              /\ api_trace.check_user = "u2"
        /\ response.body = "cached" => "kill_check" \notin api_calls
        /\ response.status # 200 => "kill_check" \notin api_calls
        /\ api_trace.alerts_for # {} =>
              /\ "kill_check" \in api_calls
              /\ api_trace.alerts_for = {api_trace.check_user}
        /\ api_trace.check_raised =>
              response.status = 200 /\ response.body = "fresh"
        /\ ("cache_write" \in api_calls
            /\ Len(cache) = api_trace.rows_before) =>
              response.status = 200 /\ response.body = "fresh"

\* C40 witness: a fresh analysis was answered with success although its
\* cache save failed and the kill-criteria check, run for the user of a
\* "bearer" token, raised.
C40_Witness ==
    /\ Accepted
    /\ response.status = 200 /\ response.body = "fresh"
    /\ api_calls = {"exists_lookup", "cache_read", "analysis_run",
                    "model_call", "cache_write", "kill_check"}
    /\ api_trace.authorization.parts = <<"bearer", "token_u2">>
    /\ api_trace.check_user = "u2"
    /\ api_trace.check_raised
    /\ Len(cache) = api_trace.rows_before

====
